---- MODULE Spec2Model ----
(***************************************************************************)
(* State-machine model of the route planning orchestrator (App.tsx) and    *)
(* of the services it drives: routingService.fetchRouteDetails,            *)
(* geminiService.optimizeRoute, geoService and authService.                *)
(*                                                                         *)
(* Every await of a handler is a suspension point: a handler is cut into   *)
(* one action per continuation that reads or writes the component state.   *)
(* Consecutive awaits that touch only the network are folded into the      *)
(* continuation that follows them, their outcomes drawn with \E.           *)
(***************************************************************************)
EXTENDS Integers, Sequences, FiniteSets, TLC

\* ------------------------------------------------------------------ bounds
\* Number of identifiers crypto.randomUUID() hands out in one behaviour.
MaxIds == 3
\* Number of stop ids a Plan Result lists, over all its assignments.
MaxPlanRefs == 2
\* Number of handler calls the user makes in one behaviour (continuations of
\* a suspended handler are not counted).
MaxClicks == 5

\* ------------------------------------------------------------- value space
NoUser == "null"
Users == {"u1", "u2"}

PENDING == "PENDING"
COMPLETED == "COMPLETED"

\* Optional values (x | undefined) are sequences of length <= 1.
None == << >>
Some(x) == <<x>>

\* ------------------------------------------------------- geoService.ts
Digits == {"0", "1", "2", "3", "4", "5", "6", "7", "8", "9"}

\* A reduction that keeps every character.
CleanDigitsKeepsAll(raw) == raw

\* raw.replace(/\D/g, ''): a text is a sequence of characters.
CleanDigits(raw) == SelectSeq(raw, LAMBDA ch : ch \in Digits)

\* An outbound call or wait of a service: "viacep" is a request to the
\* address provider for a code, "nominatim" a request to the coordinate
\* provider with one query of the queries array, "delay" the delay(800).
Call(to, code, type) == [to |-> to, code |-> code, type |-> type]

\* The answers of the address provider: "found" is an address, "erro" the
\* not-found reply {erro: true}, "throw" a failed request or a body that is
\* not JSON, "error_body" a JSON object that is neither (an error document
\* without the field erro).
\* The cep field of the provider's document for a code: the code as the
\* provider writes it, five digits, a hyphen and three digits.
providerCep(cleanCep) == SubSeq(cleanCep, 1, 5) \o <<"-">> \o SubSeq(cleanCep, 6, 8)

\* fetchAddressByCep, lines 4-27: null unless the code has 8 digits and the
\* body parses to an object without erro; the fields are copied unchecked
\* (cep: data.cep, line 17), so the address carries the provider's text of
\* the code and an error document yields an address whose fields are
\* undefined.
fetchAddressByCep(cep, outcome) ==
    IF Len(CleanDigits(cep)) # 8 THEN None
    ELSE IF outcome = "found"
         THEN Some([cep |-> providerCep(CleanDigits(cep)),
                    logradouro |-> Some("Rua"), coords |-> None])
    ELSE IF outcome = "error_body"
         THEN Some([cep |-> << >>, logradouro |-> None, coords |-> None])
    ELSE None

\* Lines 5-9: the request fetchAddressByCep issues, if any.
addressCalls(cep) ==
    IF Len(CleanDigits(cep)) # 8 THEN << >>
    ELSE <<Call("viacep", CleanDigits(cep), "")>>

\* One response of the coordinate provider: "hit" parses to two finite
\* numbers other than 0, "zero" to two finite numbers one of which is 0,
\* "inf" to numbers one of which is not finite (parseFloat("Infinity")),
\* "empty" is an empty list, "nan" has an unparsable coordinate, "throw" is
\* a failed request.
StrategyResponses == {"hit", "zero", "inf", "empty", "nan", "throw"}
NumStrategies == 4

\* Lines 39-83: the queries array, by the type of each query.
queries == <<"cep", "street_structured", "street_query", "city_fallback">>

\* Lines 100-108: the response ends the loop with a result.
accepted(response) == response \in {"hit", "zero", "inf"}

\* Line 33: address.logradouro.split throws when the field is undefined.
fetchCoordinatesThrows(address) == address.logradouro = None

\* A loop that never returns early.
attemptsNoStop(resp) == NumStrategies

\* The number of iterations the loop of lines 85-113 runs.
attempts(resp) ==
    LET hits == {k \in 1..NumStrategies : accepted(resp[k])}
    IN IF hits = {} THEN NumStrategies
       ELSE CHOOSE k \in hits : \A j \in hits : k <= j

\* fetchCoordinates: the first query, in the order of the queries array,
\* whose response has two coordinates that are not NaN decides the result.
\* The pair {lat, lng} is represented by the query that gave it, whether
\* both numbers are finite and whether one of them is 0.
fetchCoordinates(address, resp) ==
    LET k == attempts(resp)
    IN IF accepted(resp[k])
       THEN Some([by |-> k, finite |-> resp[k] # "inf", zero |-> resp[k] = "zero"])
       ELSE None

\* A loop that waits only between two of its own requests.
iterationCallsNoFirstDelay(k) ==
    IF k = 1 THEN <<Call("nominatim", << >>, queries[k])>>
    ELSE <<Call("delay", << >>, ""), Call("nominatim", << >>, queries[k])>>

\* Lines 85-96: what one iteration issues, the delay and then the request.
iterationCalls(k) == <<Call("delay", << >>, ""), Call("nominatim", << >>, queries[k])>>

\* The calls fetchCoordinates issues, in order.
RECURSIVE geoCallsUpTo(_)
geoCallsUpTo(k) == IF k = 0 THEN << >> ELSE geoCallsUpTo(k - 1) \o iterationCalls(k)
geoCalls(address, resp) ==
    IF fetchCoordinatesThrows(address) THEN << >> ELSE geoCallsUpTo(attempts(resp))

\* dest.address.lat && dest.address.lng (routingService.ts line 94): both
\* fields present and neither of them 0.
HasCoords(d) ==
    IF d.address.coords = None THEN FALSE ELSE ~d.address.coords[1].zero

\* ------------------------------------------------------ routingService.ts
\* The leg stored on a stop (travelDistance, travelDuration, geometry) is
\* represented by the origin it was requested from: 0 is startLocation, n
\* the coordinates of the stop with id n.
StartOrigin == 0

\* A request to the route-leg provider is Call("osrm", waypoints, "route"),
\* the waypoints being 0 for startLocation and the id of a stop for its
\* coordinates; the wait of line 102 is Call("delay", << >>, "").

\* A failed leg that wipes the leg fields of its stop.
withoutRouteCleared(dest) == [dest EXCEPT !.leg = None]

\* Lines 97-99: updatedDestinations.push(dest)
withoutRoute(dest) == dest

\* Lines 87-93: {...dest, travelDistance, travelDuration, geometry} of the
\* route from currentOrigin.
withLeg(dest, origin) == [dest EXCEPT !.leg = Some(origin)]

\* Lines 94-96: currentOrigin after a leg that got a route.
originAfter(dest, origin) == IF HasCoords(dest) THEN dest.id ELSE origin

\* The per-leg loop of fetchRouteDetails, lines 73-105. legs[i] is the
\* provider's answer to the request of the i-th stop: "ok", "noroute" or
\* "throw". The accumulator holds updatedDestinations, currentOrigin,
\* whether a request has thrown, and the calls made.
RECURSIVE RouteLoop(_, _, _, _)
RouteLoop(dests, legs, i, acc) ==
    IF i > Len(dests) \/ acc.thrown THEN acc
    ELSE LET dest == dests[i]
             request == Call("osrm", <<acc.origin, dest.id>>, "route")
             wait == Call("delay", << >>, "")
         IN IF legs[i] = "throw"
            THEN RouteLoop(dests, legs, i + 1,
                   [acc EXCEPT !.thrown = TRUE, !.calls = Append(@, request)])
            ELSE IF legs[i] = "ok"
            THEN RouteLoop(dests, legs, i + 1,
                   [acc EXCEPT
                      !.out = Append(@, withLeg(dest, acc.origin)),
                      !.origin = originAfter(dest, @),
                      !.calls = @ \o <<request, wait>>])
            ELSE RouteLoop(dests, legs, i + 1,
                   [acc EXCEPT !.out = Append(@, withoutRoute(dest)),
                               !.calls = @ \o <<request, wait>>])

\* Lines 35-44: the request for one route through startLocation and every
\* stop of the list.
overviewCall(dests) == Call("osrm", <<StartOrigin>> \o [i \in 1..Len(dests) |-> dests[i].id], "route")

routeRun(dests, net) ==
    RouteLoop(dests, net.legs, 1,
              [out |-> << >>, origin |-> StartOrigin, thrown |-> FALSE,
               calls |-> << >>])

\* A catch that returns the stops the loop had got to.
fetchRouteDetailsPartial(dests, net) ==
    LET run == routeRun(dests, net)
    IN IF dests = << >> THEN dests
       ELSE IF net.overview # "ok" THEN dests
       ELSE run.out

\* fetchRouteDetails(startLocation, destinations). net.overview is the
\* answer to the multi-waypoint request of lines 35-44, net.legs the answers
\* to the two-point requests.
fetchRouteDetails(dests, net) ==
    LET run == routeRun(dests, net)
    IN IF dests = << >> THEN dests
       ELSE IF net.overview # "ok" THEN dests
       ELSE IF run.thrown THEN dests
       ELSE run.out

\* The calls fetchRouteDetails makes, in order.
routeCalls(dests, net) ==
    IF dests = << >> THEN << >>
    ELSE IF net.overview # "ok" THEN <<overviewCall(dests)>>
    ELSE <<overviewCall(dests)>> \o routeRun(dests, net).calls

\* ------------------------------------------------------- geminiService.ts
FallbackVehicle == "Veiculo 1"
FallbackReasoning == "Falha na IA. Rota sequencial padrao gerada."

Ids(seq) == [i \in 1..Len(seq) |-> seq[i].id]
IdSet(seq) == {seq[i].id : i \in 1..Len(seq)}

\* optimizeRoute(currentLocation, destinations, numberOfVehicles). provider
\* is what the reasoning provider does with the request: "client_throw"
\* (getAiClient throws, outside the try), "error" (the call rejects),
\* "notext" (empty response.text), "unparsable" (JSON.parse throws) or
\* "json" (JSON.parse returns provider.result, unvalidated).
\* The result is None when the returned promise rejects.
\* A fallback that places no stop.
optimizeRouteEmptyFallback(pending, provider) ==
    IF pending = << >> THEN Some([assignments |-> Some(<< >>), reasoning |-> ""])
    ELSE IF provider.kind = "client_throw" THEN None
    ELSE IF provider.kind = "json" THEN Some(provider.result)
    ELSE Some([assignments |-> Some(<< >>), reasoning |-> FallbackReasoning])

\* A planner that asks the provider whatever the list holds.
optimizeRouteAlwaysAsks(pending, provider) ==
    IF provider.kind = "client_throw" THEN None
    ELSE IF provider.kind = "json" THEN Some(provider.result)
    ELSE Some([assignments |-> Some(<<[vehicleId |-> FallbackVehicle,
                                       stopIds |-> Ids(pending)]>>),
               reasoning |-> FallbackReasoning])

optimizeRoute(pending, provider) ==
    IF pending = << >> THEN Some([assignments |-> Some(<< >>), reasoning |-> ""])
    ELSE IF provider.kind = "client_throw" THEN None
    ELSE IF provider.kind = "json" THEN Some(provider.result)
    ELSE Some([assignments |-> Some(<<[vehicleId |-> FallbackVehicle,
                                       stopIds |-> Ids(pending)]>>),
               reasoning |-> FallbackReasoning])

\* Lines 96-136: the number of requests optimizeRoute sends to the
\* reasoning provider: none for an empty list, none when getAiClient throws.
plannerCalls(pending, provider) ==
    IF pending = << >> THEN 0
    ELSE IF provider.kind = "client_throw" THEN 0
    ELSE 1

\* --------------------------------------------------- App.tsx, handleOptimize
\* A filter that lets every stop through.
pendingOfEveryStop(dests) == dests

pendingOf(dests) == SelectSeq(dests, LAMBDA d : d.status # COMPLETED)
completedOf(dests) == SelectSeq(dests, LAMBDA d : d.status = COMPLETED)

\* pendingDestinations.find(d => d.id === id): the first match, if any.
FindById(seq, id) ==
    LET at == {i \in 1..Len(seq) : seq[i].id = id}
    IN IF at = {} THEN None
       ELSE Some(seq[CHOOSE i \in at : \A j \in at : i <= j])

\* A placement that keeps the label the stop had.
relabelKeepsLabel(found, assignment) == found

\* Line 165: .map(d => ({ ...d, vehicleId: assignment.vehicleId }))
relabel(found, assignment) == [found EXCEPT !.vehicleId = assignment.vehicleId]

\* Lines 163-166: the stops one assignment places, relabelled.
RECURSIVE vehicleDestinations(_, _, _)
vehicleDestinations(pending, assignment, k) ==
    IF k > Len(assignment.stopIds) THEN << >>
    ELSE LET found == FindById(pending, assignment.stopIds[k])
             here == IF found = None THEN << >>
                     ELSE <<relabel(found[1], assignment)>>
         IN here \o vehicleDestinations(pending, assignment, k + 1)

\* Lines 160-169: result.assignments.forEach(...)
RECURSIVE placedList(_, _, _)
placedList(pending, assignments, a) ==
    IF a > Len(assignments) THEN << >>
    ELSE vehicleDestinations(pending, assignments[a], 1)
         \o placedList(pending, assignments, a + 1)

\* Lines 171-174: the pending stops no assignment placed, appended.
missingDestinations(pending, placed) ==
    SelectSeq(pending, LAMBDA d : d.id \notin IdSet(placed))

\* A reconcile that puts the stops the plan left out before the placed ones.
newOrderedListMissingFirst(dests, assignments) ==
    LET pending == pendingOf(dests)
        placed == placedList(pending, assignments, 1)
    IN missingDestinations(pending, placed) \o placed

\* A reconcile that looks the plan's ids up in the whole collection.
newOrderedListAnyStatus(dests, assignments) ==
    LET placed == placedList(dests, assignments, 1)
    IN placed \o missingDestinations(pendingOf(dests), placed)

\* Lines 160-174: placed stops in plan order, then the missing ones.
newOrderedList(dests, assignments) ==
    LET pending == pendingOf(dests)
        placed == placedList(pending, assignments, 1)
    IN placed \o missingDestinations(pending, placed)

\* A publish that puts the reconciled Pending stops before the Completed.
publishedPendingFirst(dests, assignments, loc, net) ==
    LET list == newOrderedList(dests, assignments)
        routed == IF loc /\ list # << >> THEN fetchRouteDetails(list, net)
                  ELSE list
    IN routed \o completedOf(dests)

\* Line 157: the stops handed to optimizeRoute.
plannerInput(dests) == pendingOf(dests)

\* Lines 177-179: the stops handed to fetchRouteDetails, none when the call
\* is skipped.
segmentsInput(dests, assignments, loc) ==
    LET list == newOrderedList(dests, assignments)
    IN IF loc /\ list # << >> THEN list ELSE << >>

\* Lines 176-181: the collection handleOptimize publishes.
published(dests, assignments, loc, net) ==
    LET list == newOrderedList(dests, assignments)
        routed == IF loc /\ list # << >> THEN fetchRouteDetails(list, net)
                  ELSE list
    IN completedOf(dests) \o routed

\* ------------------------------------------------------- authService.ts
\* JSON.stringify of a stop: a number that is not finite is written as
\* null, so a latitude or longitude of Infinity comes back from JSON.parse
\* as null, which the tests of the services take for no coordinates. The
\* other fields modelled here are plain JSON values.
stringified(d) ==
    IF d.address.coords = None THEN d
    ELSE IF d.address.coords[1].finite THEN d
    ELSE [d EXCEPT !.address.coords = None]

\* Lines 53-55: localStorage.setItem(key, JSON.stringify(destinations)).
\* The store holds, for each user, the list JSON.parse gives back.
saveUserData(store, userId, dests) ==
    [store EXCEPT ![userId] = [i \in 1..Len(dests) |-> stringified(dests[i])]]

\* Lines 57-60: JSON.parse of the stored text, [] when there is none.
loadUserData(store, userId) == store[userId]

\* ----------------------------------------------------------------- state
VARIABLES
    user,              \* useState<User | null>: NoUser or a user id
    destinations,      \* useState<Destination[]>
    currentLocation,   \* useState<... | null>: TRUE when a position is known
    positionAsked,     \* getCurrentPosition() calls not yet answered
    loading,           \* useState(false)
    optimizing,        \* useState(false)
    aiReasoning,       \* useState<string | null>: None or Some(text)
    selectedDestination, \* useState<Destination | null>: None or Some(copy)
    numberOfVehicles,  \* useState(1)
    isDataLoaded,      \* isDataLoadedRef.current
    localStorage,      \* rotaai_data_<userId>, per user
    nextId,            \* the next identifier crypto.randomUUID() returns
    batchActive,       \* a handleAddCep call is suspended in its loop
    validCeps,         \* its validCeps
    batchI,            \* its loop index i: the codes it has dealt with
    batchVehicles,     \* the numberOfVehicles its closure captured
    batchAddress,      \* its address: Some(address) while it awaits line 110
    optActive,         \* a handleOptimize call is suspended
    optDests,          \* the destinations its closure captured
    optLoc,            \* the currentLocation its closure captured
    optPlan,           \* its result: Some(...) while it awaits line 178
    ev,                \* the last handler continuation that ran, with its inputs
    clicks             \* the number of handler calls the user has made

vars == <<user, destinations, currentLocation, positionAsked, loading, optimizing,
          aiReasoning, selectedDestination, numberOfVehicles, isDataLoaded,
          localStorage, nextId, batchActive, validCeps, batchI, batchVehicles,
          batchAddress, optActive, optDests, optLoc, optPlan, ev, clicks>>

appVars == <<user, destinations, currentLocation, positionAsked, loading,
             optimizing, aiReasoning, selectedDestination, numberOfVehicles,
             isDataLoaded, localStorage, nextId>>
batchVars == <<batchActive, validCeps, batchI, batchVehicles, batchAddress>>
optVars == <<optActive, optDests, optLoc, optPlan>>

NoResult == [assignments |-> None, reasoning |-> ""]
NoNet == [overview |-> "none", legs |-> << >>]

\* What ev records of a continuation: the operation, the stop it is about,
\* the collection, Plan Result, position and route answers an optimize used,
\* the stops it sent to the planner and to the route-leg provider, and for a
\* continuation of a batch add the answer it received and the outbound
\* calls made by the service call that gave that answer.
Event(op) == [op |-> op, id |-> 0, snap |-> << >>, result |-> NoResult,
              loc |-> FALSE, net |-> NoNet, sent |-> << >>, routed |-> << >>,
              raw |-> << >>, addr |-> "none", resp |-> << >>,
              address |-> None, coords |-> None, calls |-> << >>,
              kind |-> "none", aiCalls |-> 0]

\* A handler call of the user.
click == clicks < MaxClicks /\ clicks' = clicks + 1

\* The persistence effect of lines 52-56, which runs after every render
\* that changed destinations or user.
persisted(u, loaded, dests, store) ==
    IF u # NoUser /\ loaded THEN saveUserData(store, u, dests) ELSE store

Init ==
    /\ user = NoUser
    /\ destinations = << >>
    /\ currentLocation = FALSE
    /\ positionAsked = 0
    /\ loading = FALSE
    /\ optimizing = FALSE
    /\ aiReasoning = None
    /\ selectedDestination = None
    /\ numberOfVehicles = 1
    /\ isDataLoaded = FALSE
    /\ localStorage = [u \in Users |-> << >>]
    /\ nextId = 1
    /\ batchActive = FALSE
    /\ validCeps = << >>
    /\ batchI = 0
    /\ batchVehicles = 1
    /\ batchAddress = None
    /\ optActive = FALSE
    /\ optDests = << >>
    /\ optLoc = FALSE
    /\ optPlan = None
    /\ ev = Event("init")
    /\ clicks = 0

\* ------------------------------------------------- login, logout, toolbar
\* Lines 58-63, called by the LoginScreen: by its Google button, and by its
\* form once authService has answered, which can be after the Google button
\* has logged a user in. The effect of lines 35-41 then asks for the
\* position, and the effect of lines 52-56 saves what was loaded.
handleLogin(u) ==
    /\ click
    /\ user' = u
    /\ destinations' = loadUserData(localStorage, u)
    /\ isDataLoaded' = TRUE
    /\ positionAsked' = positionAsked + 1
    /\ localStorage' = persisted(u, TRUE, destinations', localStorage)
    /\ ev' = Event("login")
    /\ UNCHANGED <<currentLocation, loading, optimizing, aiReasoning,
                   selectedDestination, numberOfVehicles, nextId, batchVars,
                   optVars>>

\* Lines 65-71.
handleLogout ==
    /\ user # NoUser
    /\ click
    /\ user' = NoUser
    /\ destinations' = << >>
    /\ aiReasoning' = None
    /\ isDataLoaded' = FALSE
    /\ ev' = Event("logout")
    /\ UNCHANGED <<currentLocation, positionAsked, loading, optimizing,
                   selectedDestination, numberOfVehicles, localStorage, nextId,
                   batchVars, optVars>>

\* getCurrentPosition().then(pos => setCurrentLocation(pos)), line 38: the
\* browser answers one of the calls the effect has made, whoever is logged
\* in by then.
setCurrentLocation ==
    /\ positionAsked > 0
    /\ click
    /\ positionAsked' = positionAsked - 1
    /\ currentLocation' = TRUE
    /\ ev' = Event("location")
    /\ UNCHANGED <<user, destinations, loading, optimizing, aiReasoning,
                   selectedDestination, numberOfVehicles, isDataLoaded,
                   localStorage, nextId, batchVars, optVars>>

\* The vehicles select, lines 330-339.
setNumberOfVehicles(n) ==
    /\ user # NoUser
    /\ click
    /\ n # numberOfVehicles
    /\ numberOfVehicles' = n
    /\ ev' = Event("vehicles")
    /\ UNCHANGED <<user, destinations, currentLocation, positionAsked, loading,
                   optimizing, aiReasoning, selectedDestination, isDataLoaded,
                   localStorage, nextId, batchVars, optVars>>

\* Lines 235-241.
handleClearAll ==
    /\ user # NoUser
    /\ click
    /\ destinations' = << >>
    /\ selectedDestination' = None
    /\ aiReasoning' = None
    /\ localStorage' = persisted(user, isDataLoaded, destinations', localStorage)
    /\ ev' = Event("clear")
    /\ UNCHANGED <<user, currentLocation, positionAsked, loading, optimizing,
                   numberOfVehicles, isDataLoaded, nextId, batchVars, optVars>>

\* Line 356 (a card of the list) and line 386 (a point of the map):
\* setSelectedDestination(dest), a copy of the stop as it is rendered.
setSelectedDestination(i) ==
    /\ user # NoUser
    /\ click
    /\ i \in 1..Len(destinations)
    /\ selectedDestination' = Some(destinations[i])
    /\ ev' = [Event("select") EXCEPT !.id = destinations[i].id]
    /\ UNCHANGED <<user, destinations, currentLocation, positionAsked, loading,
                   optimizing, aiReasoning, numberOfVehicles, isDataLoaded,
                   localStorage, nextId, batchVars, optVars>>

\* Line 392: onClose of the Modal.
onClose ==
    /\ user # NoUser
    /\ click
    /\ selectedDestination # None
    /\ selectedDestination' = None
    /\ ev' = Event("close")
    /\ UNCHANGED <<user, destinations, currentLocation, positionAsked, loading,
                   optimizing, aiReasoning, numberOfVehicles, isDataLoaded,
                   localStorage, nextId, batchVars, optVars>>

\* ---------------------------------------------------- App.tsx, handleAddCep
\* Lines 113-123: the stop created for a resolved code.
newDest(id, address, coords, vehicles) ==
    [id |-> id,
     address |-> [address EXCEPT !.coords = coords],
     status |-> PENDING,
     notes |-> "",
     vehicleId |-> IF vehicles > 1 THEN "Pendente" ELSE "Veiculo 1",
     timeWindow |-> None,
     proofOfDelivery |-> None,
     leg |-> None]

\* A setDestinations that writes the collection the handler captured when
\* it was called (empty, for a batch submitted to an empty collection).
setDestinationsStale(prev, dest) == <<dest>>

\* Lines 126-129: setDestinations(prev => [...prev, newDest])
setDestinationsAppend(prev, dest) == Append(prev, dest)

\* Lines 80-87: rawInputs is the text split at line breaks, commas and
\* semicolons; validCeps keeps the 8-digit reductions.
RECURSIVE validCepsOf(_)
validCepsOf(rawInputs) ==
    IF rawInputs = << >> THEN << >>
    ELSE LET clean == CleanDigits(Head(rawInputs))
         IN (IF Len(clean) = 8 THEN <<clean>> ELSE << >>)
            \o validCepsOf(Tail(rawInputs))

\* handleAddCep up to its first await (lines 73-106). The submit button is
\* disabled while loading (line 319).
handleAddCep(rawInputs) ==
    /\ user # NoUser
    /\ click
    /\ ~loading
    /\ rawInputs # << >>
    /\ LET valid == validCepsOf(rawInputs)
       IN /\ nextId + Len(valid) <= MaxIds + 1
          /\ IF valid = << >>
             THEN /\ ev' = [Event("addCepNoValid") EXCEPT !.raw = rawInputs]
                  /\ UNCHANGED <<loading, batchVars>>
             ELSE /\ loading' = TRUE
                  /\ batchActive' = TRUE
                  /\ validCeps' = valid
                  /\ batchI' = 0
                  /\ batchVehicles' = numberOfVehicles
                  /\ batchAddress' = None
                  /\ ev' = [Event("addCepStart") EXCEPT !.raw = rawInputs]
    /\ UNCHANGED <<user, destinations, currentLocation, positionAsked,
                   optimizing, aiReasoning, selectedDestination,
                   numberOfVehicles, isDataLoaded, localStorage, nextId, optVars>>

\* The continuation of the loop of lines 102-139 that receives the answer
\* of fetchAddressByCep (line 106). Without an address the iteration is
\* over and the loop goes on to the next code, or to the end of the handler
\* (lines 141-146) after the last code; with one, the handler calls
\* fetchCoordinates and awaits it (line 110).
addCepAddress(addrOutcome) ==
    /\ batchActive
    /\ batchAddress = None
    /\ UNCHANGED clicks
    /\ LET cep == validCeps[batchI + 1]
           address == fetchAddressByCep(cep, addrOutcome)
       IN /\ IF address = None THEN TRUE ELSE ~fetchCoordinatesThrows(address[1])
          /\ batchAddress' = address
          /\ batchI' = IF address = None THEN batchI + 1 ELSE batchI
          /\ ev' = [Event(IF address = None THEN "addCepSkip" ELSE "addCepAddress")
                      EXCEPT !.addr = addrOutcome,
                             !.address = address,
                             !.calls = addressCalls(cep)]
    /\ batchActive' = (batchI' < Len(validCeps))
    /\ loading' = IF batchI' < Len(validCeps) THEN loading ELSE FALSE
    /\ UNCHANGED <<user, destinations, currentLocation, positionAsked,
                   optimizing, aiReasoning, selectedDestination,
                   numberOfVehicles, isDataLoaded, localStorage, nextId,
                   validCeps, batchVehicles, optVars>>

\* The same continuation when fetchCoordinates throws at line 33, outside
\* its try: the await of line 110 rejects, nothing in handleAddCep catches
\* it, and the handler ends there, before setLoading(false) of line 141.
addCepThrow(addrOutcome) ==
    /\ batchActive
    /\ batchAddress = None
    /\ UNCHANGED clicks
    /\ LET cep == validCeps[batchI + 1]
           address == fetchAddressByCep(cep, addrOutcome)
       IN /\ IF address = None THEN FALSE ELSE fetchCoordinatesThrows(address[1])
          /\ ev' = [Event("addCepThrow") EXCEPT
                      !.addr = addrOutcome, !.address = address,
                      !.calls = addressCalls(cep) \o geoCalls(address[1], << >>)]
    /\ batchActive' = FALSE
    /\ UNCHANGED <<appVars, validCeps, batchI, batchVehicles, batchAddress,
                   optVars>>

\* The continuation that receives the answer of fetchCoordinates (line
\* 110): lines 112-138, then the next iteration up to its await, or the end
\* of the handler after the last code.
addCepCoords(resp) ==
    /\ batchActive
    /\ batchAddress # None
    /\ UNCHANGED clicks
    /\ LET address == batchAddress[1]
           coords == fetchCoordinates(address, resp)
           created == coords # None
           dest == newDest(nextId, address, coords, batchVehicles)
       IN /\ destinations' =
                IF created THEN setDestinationsAppend(destinations, dest)
                ELSE destinations
          /\ selectedDestination' =
                IF created /\ Len(validCeps) = 1 THEN Some(dest)
                ELSE selectedDestination
          /\ nextId' = IF created THEN nextId + 1 ELSE nextId
          /\ ev' = [Event(IF created THEN "addCepAppend" ELSE "addCepSkip")
                      EXCEPT !.id = IF created THEN nextId ELSE 0,
                             !.resp = resp,
                             !.address = batchAddress,
                             !.coords = coords,
                             !.calls = geoCalls(address, resp)]
    /\ batchAddress' = None
    /\ batchI' = batchI + 1
    /\ batchActive' = (batchI' < Len(validCeps))
    /\ loading' = IF batchI' < Len(validCeps) THEN loading ELSE FALSE
    /\ localStorage' = persisted(user, isDataLoaded, destinations', localStorage)
    /\ UNCHANGED <<user, currentLocation, positionAsked, optimizing,
                   aiReasoning, numberOfVehicles, isDataLoaded, validCeps,
                   batchVehicles, optVars>>

\* -------------------------------------------------- App.tsx, handleOptimize
\* handleOptimize up to its first await (lines 149-157). The button is
\* disabled while optimizing or with fewer than two stops (line 366).
handleOptimize ==
    /\ user # NoUser
    /\ click
    /\ ~optimizing
    /\ Len(destinations) >= 2
    /\ destinations # << >>
    /\ optimizing' = TRUE
    /\ optActive' = TRUE
    /\ optDests' = destinations
    /\ optLoc' = currentLocation
    /\ optPlan' = None
    /\ ev' = Event("optimizeStart")
    /\ UNCHANGED <<user, destinations, currentLocation, positionAsked, loading,
                   aiReasoning, selectedDestination, numberOfVehicles,
                   isDataLoaded, localStorage, nextId, batchVars>>

\* What the handler keeps of the answer of optimizeRoute while it awaits
\* fetchRouteDetails: result, and for ev how the provider answered.
planned(res, provider, pending) ==
    [result |-> res, kind |-> provider.kind,
     aiCalls |-> plannerCalls(pending, provider)]

\* What ev records of the optimize that publishes.
publishEvent(plan, routed, net) ==
    [Event("optimizePublish") EXCEPT
        !.snap = optDests, !.result = plan.result,
        !.loc = optLoc, !.net = net,
        !.sent = plannerInput(optDests),
        !.routed = routed,
        !.calls = routeCalls(routed, net),
        !.kind = plan.kind,
        !.aiCalls = plan.aiCalls]

\* The continuation of handleOptimize that receives the answer of
\* optimizeRoute (line 157) when neither that call nor the forEach of line
\* 162 throws: lines 160-174 reconcile; then either the handler calls
\* fetchRouteDetails and awaits it (line 178), or it publishes at once
\* (lines 181-183).
optimizeReconcile(provider) ==
    /\ optActive
    /\ optPlan = None
    /\ UNCHANGED clicks
    /\ \E res \in {optimizeRoute(plannerInput(optDests), provider)} :
          /\ res # None
          /\ res[1].assignments # None
          /\ \E plan \in {planned(res[1], provider, plannerInput(optDests))} :
                IF segmentsInput(optDests, res[1].assignments[1], optLoc) # << >>
                THEN /\ optPlan' = Some(plan)
                     /\ ev' = [Event("optimizeReconcile") EXCEPT
                                 !.snap = optDests, !.result = plan.result,
                                 !.loc = optLoc,
                                 !.sent = plannerInput(optDests),
                                 !.kind = plan.kind, !.aiCalls = plan.aiCalls]
                     /\ UNCHANGED <<destinations, aiReasoning, optimizing,
                                    optActive, optDests, optLoc, localStorage>>
                ELSE /\ destinations' =
                          published(optDests, res[1].assignments[1], optLoc, NoNet)
                     /\ aiReasoning' = Some(res[1].reasoning)
                     /\ ev' = publishEvent(plan, << >>, NoNet)
                     /\ optimizing' = FALSE
                     /\ optActive' = FALSE
                     /\ optDests' = << >>
                     /\ optLoc' = FALSE
                     /\ optPlan' = None
                     /\ localStorage' =
                          persisted(user, isDataLoaded, destinations', localStorage)
    /\ UNCHANGED <<user, currentLocation, positionAsked, loading,
                   selectedDestination, numberOfVehicles, isDataLoaded, nextId,
                   batchVars>>

\* The continuation that receives the answer of fetchRouteDetails (line
\* 178) and publishes (lines 181-183).
optimizePublish(net) ==
    /\ optActive
    /\ optPlan # None
    /\ UNCHANGED clicks
    /\ \E plan \in {optPlan[1]} :
          \E routed \in {segmentsInput(optDests, plan.result.assignments[1], optLoc)} :
             /\ destinations' =
                   published(optDests, plan.result.assignments[1], optLoc, net)
             /\ aiReasoning' = Some(plan.result.reasoning)
             /\ ev' = publishEvent(plan, routed, net)
    /\ optimizing' = FALSE
    /\ optActive' = FALSE
    /\ optDests' = << >>
    /\ optLoc' = FALSE
    /\ optPlan' = None
    /\ localStorage' = persisted(user, isDataLoaded, destinations', localStorage)
    /\ UNCHANGED <<user, currentLocation, positionAsked, loading,
                   selectedDestination, numberOfVehicles, isDataLoaded, nextId,
                   batchVars>>

\* The await of line 157 rejects, or result.assignments is not a list and
\* line 162 throws: the handler ends there, optimizing stays true.
optimizeThrow(provider) ==
    /\ optActive
    /\ optPlan = None
    /\ UNCHANGED clicks
    /\ LET res == optimizeRoute(plannerInput(optDests), provider)
       IN IF res = None THEN TRUE ELSE res[1].assignments = None
    /\ optActive' = FALSE
    /\ optDests' = << >>
    /\ optLoc' = FALSE
    /\ optPlan' = None
    /\ ev' = Event("optimizeThrow")
    /\ UNCHANGED <<appVars, batchVars>>

\* ------------------------------------------------ App.tsx, direct mutations
\* The Modal acts on destination = selectedDestination (line 394), the copy
\* of a stop taken when it was selected; the copy outlives the stop and is
\* not refreshed when an optimize publishes. The Modal is rendered while a
\* user is logged in (line 274) and the copy is not null (Modal.tsx line 39).
modalOpen == user # NoUser /\ selectedDestination # None

completedStop(d, receiverName) ==
    [d EXCEPT !.status = COMPLETED,
              !.proofOfDelivery = Some([receiverName |-> receiverName,
                                        timestamp |-> "Date.now()"])]

\* Lines 190-200: prev.map(d => d.id === id ? {...d, status, proofOfDelivery} : d)
markAsCompleted(dests, id, receiverName) ==
    [i \in 1..Len(dests) |->
        IF dests[i].id = id THEN completedStop(dests[i], receiverName) ELSE dests[i]]

\* A notes edit that writes the text on every stop.
notesUpdatedEveryStop(dests, id, notes) ==
    [i \in 1..Len(dests) |-> [dests[i] EXCEPT !.notes = notes]]

\* Line 211: prev.map(d => d.id === id ? { ...d, notes: notes } : d)
notesUpdated(dests, id, notes) ==
    [i \in 1..Len(dests) |->
        IF dests[i].id = id THEN [dests[i] EXCEPT !.notes = notes] ELSE dests[i]]

\* Line 216: prev.map(d => d.id === id ? { ...d, timeWindow: window } : d)
handleUpdateTimeWindow(dests, id, window) ==
    [i \in 1..Len(dests) |->
        IF dests[i].id = id THEN [dests[i] EXCEPT !.timeWindow = window] ELSE dests[i]]

\* A trim that leaves the name as typed.
trimmedAsTyped(name) == name

\* receiverName.trim() of Modal.tsx line 58, on the names drawn here.
trimmed(name) == IF name = " " THEN "" ELSE name

\* Modal.handleFinishDelivery (lines 57-64) calling markAsCompleted (lines
\* 186-202) and onClose. The Modal offers it when its copy is not
\* Completed (Modal.tsx line 249).
handleFinishDelivery(receiverName) ==
    /\ modalOpen
    /\ click
    /\ selectedDestination[1].status # COMPLETED
    /\ LET id == selectedDestination[1].id
       IN IF trimmed(receiverName) = ""
          THEN /\ destinations' = destinations
               /\ selectedDestination' = selectedDestination
               /\ ev' = [Event("finishRefused") EXCEPT !.id = id, !.snap = destinations]
          ELSE /\ destinations' =
                    markAsCompleted(destinations, id, receiverName)
               /\ selectedDestination' = None
               /\ ev' = [Event("complete") EXCEPT !.id = id]
    /\ localStorage' = persisted(user, isDataLoaded, destinations', localStorage)
    /\ UNCHANGED <<user, currentLocation, positionAsked, loading, optimizing,
                   aiReasoning, numberOfVehicles, isDataLoaded, nextId,
                   batchVars, optVars>>

\* Lines 204-207, from the card of a stop of the list.
removeDestination(id) ==
    /\ user # NoUser
    /\ click
    /\ id \in IdSet(destinations)
    /\ destinations' = SelectSeq(destinations, LAMBDA d : d.id # id)
    /\ selectedDestination' =
          IF selectedDestination = None THEN None
          ELSE IF selectedDestination[1].id = id THEN None
          ELSE selectedDestination
    /\ localStorage' = persisted(user, isDataLoaded, destinations', localStorage)
    /\ ev' = [Event("remove") EXCEPT !.id = id]
    /\ UNCHANGED <<user, currentLocation, positionAsked, loading, optimizing,
                   aiReasoning, numberOfVehicles, isDataLoaded, nextId,
                   batchVars, optVars>>

\* Lines 210-213, from the notes field of the Modal (Modal.tsx line 148).
handleUpdateNotes(notes) ==
    /\ modalOpen
    /\ click
    /\ LET id == selectedDestination[1].id
       IN /\ destinations' = notesUpdated(destinations, id, notes)
          /\ ev' = [Event("notes") EXCEPT !.id = id]
    /\ selectedDestination' = Some([selectedDestination[1] EXCEPT !.notes = notes])
    /\ localStorage' = persisted(user, isDataLoaded, destinations', localStorage)
    /\ UNCHANGED <<user, currentLocation, positionAsked, loading, optimizing,
                   aiReasoning, numberOfVehicles, isDataLoaded, nextId,
                   batchVars, optVars>>

\* A validation that lets a window of no duration through.
windowRejectedOnlyIfEarlier(startTime, endTime) == startTime > endTime

\* Modal.tsx line 46: startTime >= endTime
windowRejected(startTime, endTime) == startTime >= endTime

\* Modal.handleSaveTimeWindow (lines 41-55) calling handleUpdateTimeWindow
\* (lines 215-218). A time "HH:MM" is the number HHMM, which orders as the
\* strings do; an empty field is None.
handleSaveTimeWindow(startTime, endTime) ==
    /\ modalOpen
    /\ click
    /\ LET id == selectedDestination[1].id
           window == Some([start |-> startTime[1], end |-> endTime[1]])
       IN IF startTime # None /\ endTime # None
          THEN IF windowRejected(startTime[1], endTime[1])
               THEN /\ destinations' = destinations
                    /\ selectedDestination' = selectedDestination
                    /\ ev' = [Event("timeWindowError") EXCEPT
                                !.id = id, !.snap = destinations]
               ELSE /\ destinations' =
                         handleUpdateTimeWindow(destinations, id, window)
                    /\ selectedDestination' =
                         Some([selectedDestination[1] EXCEPT !.timeWindow = window])
                    /\ ev' = [Event("timeWindow") EXCEPT !.id = id]
          ELSE /\ destinations' = destinations
               /\ selectedDestination' = selectedDestination
               /\ ev' = [Event("timeWindowIgnored") EXCEPT !.id = id]
    /\ localStorage' = persisted(user, isDataLoaded, destinations', localStorage)
    /\ UNCHANGED <<user, currentLocation, positionAsked, loading, optimizing,
                   aiReasoning, numberOfVehicles, isDataLoaded, nextId,
                   batchVars, optVars>>

\* A copy that keeps the status and the proof of its source.
newDestCopyAsIs(dest, id) == [dest EXCEPT !.id = id]

\* Lines 222-229: {...dest, id, status: PENDING, proofOfDelivery: undefined,
\* notes}; id is the crypto.randomUUID() of line 224.
newDestCopy(dest, id) ==
    [dest EXCEPT !.id = id,
                 !.status = PENDING,
                 !.proofOfDelivery = None,
                 !.notes = IF dest.notes # "" THEN dest.notes \o " (Copia)"
                           ELSE ""]

\* Lines 221-232, called by the Modal with its copy and followed by onClose
\* (Modal.tsx lines 236-239).
handleDuplicateDestination ==
    /\ modalOpen
    /\ click
    /\ nextId <= MaxIds
    /\ destinations' = Append(destinations, newDestCopy(selectedDestination[1], nextId))
    /\ selectedDestination' = None
    /\ nextId' = nextId + 1
    /\ localStorage' = persisted(user, isDataLoaded, destinations', localStorage)
    /\ ev' = [Event("duplicate") EXCEPT !.id = nextId, !.snap = selectedDestination]
    /\ UNCHANGED <<user, currentLocation, positionAsked, loading, optimizing,
                   aiReasoning, numberOfVehicles, isDataLoaded, batchVars, optVars>>

\* ------------------------------------------------ earlier App (part_001)
\* The earlier App has no login, no vehicles select, no time window, no
\* proof of delivery and no localStorage: what stands for them in the state
\* keeps its initial value in every step of its handlers.
laterOnlyVars == <<user, numberOfVehicles, isDataLoaded, localStorage, batchVehicles>>

\* Lines 24-28: getCurrentPosition().then(pos => setCurrentLocation(pos)),
\* the answer to the one call the mount effect makes.
earlierSetCurrentLocation ==
    /\ positionAsked > 0
    /\ positionAsked' = positionAsked - 1
    /\ currentLocation' = TRUE
    /\ ev' = Event("location")
    /\ UNCHANGED <<destinations, loading, optimizing, aiReasoning,
                   selectedDestination, nextId, clicks, batchActive, validCeps,
                   batchI, batchAddress, optVars, laterOnlyVars>>

\* Line 27: the call is rejected (access denied or unavailable) and the
\* catch only logs; currentLocation stays null.
earlierPositionDenied ==
    /\ positionAsked > 0
    /\ positionAsked' = positionAsked - 1
    /\ ev' = Event("locationDenied")
    /\ UNCHANGED <<destinations, currentLocation, loading, optimizing,
                   aiReasoning, selectedDestination, nextId, clicks,
                   batchActive, validCeps, batchI, batchAddress, optVars,
                   laterOnlyVars>>

\* Lines 50-63: the stop created for the code, with the coordinates found
\* or without any (lat: coords?.lat), and without a vehicleId.
earlierNewDest(id, address, coords) ==
    [id |-> id,
     address |-> [address EXCEPT !.coords = coords],
     status |-> PENDING,
     notes |-> "",
     vehicleId |-> None,
     timeWindow |-> None,
     proofOfDelivery |-> None,
     leg |-> None]

\* handleAddCep up to its first await (lines 38-43). The submit button is
\* disabled while loading and until the field holds the nine characters
\* 00000-000 (line 216).
earlierHandleAddCep(cepInput) ==
    /\ click
    /\ ~loading
    /\ Len(cepInput) >= 8
    /\ nextId <= MaxIds
    /\ loading' = TRUE
    /\ batchActive' = TRUE
    /\ validCeps' = <<cepInput>>
    /\ batchI' = 0
    /\ batchAddress' = None
    /\ ev' = [Event("addStart") EXCEPT !.raw = <<cepInput>>]
    /\ UNCHANGED <<destinations, currentLocation, positionAsked, optimizing,
                   aiReasoning, selectedDestination, nextId, optVars,
                   laterOnlyVars>>

\* The continuation that receives the answer of fetchAddressByCep (line
\* 43): without an address the alert of line 72 and setLoading(false);
\* with one, the handler calls fetchCoordinates and awaits it (line 47).
earlierAddCepAddress(addrOutcome) ==
    /\ batchActive
    /\ batchAddress = None
    /\ LET address == fetchAddressByCep(validCeps[1], addrOutcome)
       IN /\ IF address = None THEN TRUE ELSE ~fetchCoordinatesThrows(address[1])
          /\ batchAddress' = address
          /\ batchActive' = (address # None)
          /\ loading' = (address # None)
          /\ ev' = Event(IF address = None THEN "addNotFound" ELSE "addAddress")
    /\ UNCHANGED <<destinations, currentLocation, positionAsked, optimizing,
                   aiReasoning, selectedDestination, nextId, clicks, validCeps,
                   batchI, optVars, laterOnlyVars>>

\* The same continuation when fetchCoordinates throws at its line 33: the
\* await of line 47 rejects, nothing catches it, and the handler ends
\* before setLoading(false) of line 74.
earlierAddCepThrow(addrOutcome) ==
    /\ batchActive
    /\ batchAddress = None
    /\ LET address == fetchAddressByCep(validCeps[1], addrOutcome)
       IN IF address = None THEN FALSE ELSE fetchCoordinatesThrows(address[1])
    /\ batchActive' = FALSE
    /\ ev' = Event("addThrow")
    /\ UNCHANGED <<destinations, currentLocation, positionAsked, loading,
                   optimizing, aiReasoning, selectedDestination, nextId, clicks,
                   validCeps, batchI, batchAddress, optVars, laterOnlyVars>>

\* The continuation that receives the answer of fetchCoordinates (line
\* 47): lines 50-70 and 74. The stop is appended whether or not
\* coordinates were found, and the Modal is opened on it.
earlierAddCepCoords(resp) ==
    /\ batchActive
    /\ batchAddress # None
    /\ LET address == batchAddress[1]
           dest == earlierNewDest(nextId, address, fetchCoordinates(address, resp))
       IN /\ destinations' = setDestinationsAppend(destinations, dest)
          /\ selectedDestination' = Some(dest)
          /\ ev' = [Event("addAppend") EXCEPT !.id = nextId]
    /\ nextId' = nextId + 1
    /\ batchAddress' = None
    /\ batchActive' = FALSE
    /\ loading' = FALSE
    /\ UNCHANGED <<currentLocation, positionAsked, optimizing, aiReasoning,
                   clicks, validCeps, batchI, optVars, laterOnlyVars>>

\* handleOptimize up to its await (lines 77-85). The button is disabled
\* while optimizing or with fewer than two stops (line 294).
earlierHandleOptimize ==
    /\ click
    /\ ~optimizing
    /\ Len(destinations) >= 2
    /\ optimizing' = TRUE
    /\ optActive' = TRUE
    /\ optDests' = destinations
    /\ optLoc' = currentLocation
    /\ optPlan' = None
    /\ ev' = Event("optimizeStart")
    /\ UNCHANGED <<destinations, currentLocation, positionAsked, loading,
                   aiReasoning, selectedDestination, nextId, batchActive,
                   validCeps, batchI, batchAddress, laterOnlyVars>>

\* Lines 87-89: result.sortedIds.map(id => pendingDestinations.find(...))
\* .filter(d => !!d): the stops the ids name, in the order of the ids.
reorderedPending(dests, sortedIds) ==
    LET found == [i \in 1..Len(sortedIds) |-> FindById(pendingOf(dests), sortedIds[i])]
        kept == SelectSeq(found, LAMBDA f : f # None)
    IN [i \in 1..Len(kept) |-> kept[i][1]]

\* optimizeRoute of the geminiService this App imports (part_000, lines
\* 8-83). With at most one stop it answers without a request (lines 12-17).
\* getAiClient (line 19) stands before the try, so its exception rejects
\* the promise. A request that fails, or an answer without text or that is
\* no JSON, is caught and answered by the stops in the order given (lines
\* 75-82). A JSON answer is returned as parsed (line 73), whatever it holds.
EarlierSingleReasoning == "Apenas um destino, nenhuma otimizacao necessaria."
EarlierFallbackReasoning == "Falha na otimizacao automatica. Usando ordem de insercao."
earlierOptimizeRoute(pending, provider) ==
    IF Len(pending) <= 1
    THEN Some([sortedIds |-> Some(Ids(pending)), reasoning |-> EarlierSingleReasoning])
    ELSE IF provider.kind = "client_throw" THEN None
    ELSE IF provider.kind = "json" THEN Some(provider.result)
    ELSE Some([sortedIds |-> Some(Ids(pending)), reasoning |-> EarlierFallbackReasoning])

\* The continuation that receives the answer of optimizeRoute (line 85):
\* lines 87-89, then either the handler calls fetchRouteDetails and awaits
\* it (line 93) or it publishes at once (lines 96-98).
earlierOptimizeReconcile(provider) ==
    /\ optActive
    /\ optPlan = None
    /\ LET res == earlierOptimizeRoute(pendingOf(optDests), provider)
       IN /\ res # None
          /\ res[1].sortedIds # None
          /\ LET sortedIds == res[1].sortedIds[1]
                 list == reorderedPending(optDests, sortedIds)
             IN IF optLoc /\ list # << >>
                THEN /\ optPlan' = Some([sortedIds |-> sortedIds,
                                         reasoning |-> res[1].reasoning])
                     /\ ev' = Event("optimizeReconcile")
                     /\ UNCHANGED <<destinations, aiReasoning, optimizing,
                                    optActive, optDests, optLoc>>
                ELSE /\ destinations' = completedOf(optDests) \o list
                     /\ aiReasoning' = Some(res[1].reasoning)
                     /\ ev' = [Event("optimizePublish") EXCEPT !.snap = optDests]
                     /\ optimizing' = FALSE
                     /\ optActive' = FALSE
                     /\ optDests' = << >>
                     /\ optLoc' = FALSE
                     /\ optPlan' = None
    /\ UNCHANGED <<currentLocation, positionAsked, loading, selectedDestination,
                   nextId, clicks, batchActive, validCeps, batchI, batchAddress,
                   laterOnlyVars>>

\* The await of line 85 rejects, or the answer has no sortedIds and line 87
\* throws: handleOptimize has no try/catch, the handler ends there and
\* optimizing stays true.
earlierOptimizeThrow(provider) ==
    /\ optActive
    /\ optPlan = None
    /\ LET res == earlierOptimizeRoute(pendingOf(optDests), provider)
       IN IF res = None THEN TRUE ELSE res[1].sortedIds = None
    /\ optActive' = FALSE
    /\ optDests' = << >>
    /\ optLoc' = FALSE
    /\ optPlan' = None
    /\ ev' = Event("optimizeThrow")
    /\ UNCHANGED <<destinations, currentLocation, positionAsked, loading,
                   optimizing, aiReasoning, selectedDestination, nextId, clicks,
                   batchActive, validCeps, batchI, batchAddress, laterOnlyVars>>

\* The continuation that receives the answer of fetchRouteDetails (line
\* 93) and publishes (lines 96-98).
earlierOptimizePublish(net) ==
    /\ optActive
    /\ optPlan # None
    /\ LET list == reorderedPending(optDests, optPlan[1].sortedIds)
       IN destinations' = completedOf(optDests) \o fetchRouteDetails(list, net)
    /\ aiReasoning' = Some(optPlan[1].reasoning)
    /\ ev' = [Event("optimizePublish") EXCEPT !.snap = optDests, !.net = net]
    /\ optimizing' = FALSE
    /\ optActive' = FALSE
    /\ optDests' = << >>
    /\ optLoc' = FALSE
    /\ optPlan' = None
    /\ UNCHANGED <<currentLocation, positionAsked, loading, selectedDestination,
                   nextId, clicks, batchActive, validCeps, batchI, batchAddress,
                   laterOnlyVars>>

\* Lines 285 (a card of the list) and 354 (a point of the map).
earlierSetSelectedDestination(i) ==
    /\ click
    /\ i \in 1..Len(destinations)
    /\ selectedDestination' = Some(destinations[i])
    /\ ev' = [Event("select") EXCEPT !.id = destinations[i].id]
    /\ UNCHANGED <<destinations, currentLocation, positionAsked, loading,
                   optimizing, aiReasoning, nextId, batchActive, validCeps,
                   batchI, batchAddress, optVars, laterOnlyVars>>

\* Line 377: onClose of the Modal.
earlierOnClose ==
    /\ click
    /\ selectedDestination # None
    /\ selectedDestination' = None
    /\ ev' = Event("close")
    /\ UNCHANGED <<destinations, currentLocation, positionAsked, loading,
                   optimizing, aiReasoning, nextId, batchActive, validCeps,
                   batchI, batchAddress, optVars, laterOnlyVars>>

\* Lines 101-106, from the button of the Modal (line 451), which is there
\* while the Modal's copy is not Completed (line 449): the status and
\* nothing else.
earlierMarkAsCompleted ==
    /\ click
    /\ selectedDestination # None
    /\ selectedDestination[1].status # COMPLETED
    /\ LET id == selectedDestination[1].id
       IN /\ destinations' =
                [i \in 1..Len(destinations) |->
                    IF destinations[i].id = id
                    THEN [destinations[i] EXCEPT !.status = COMPLETED]
                    ELSE destinations[i]]
          /\ ev' = [Event("complete") EXCEPT !.id = id]
    /\ selectedDestination' = None
    /\ UNCHANGED <<currentLocation, positionAsked, loading, optimizing,
                   aiReasoning, nextId, batchActive, validCeps, batchI,
                   batchAddress, optVars, laterOnlyVars>>

\* Lines 108-111, from the card of a stop of the list.
earlierRemoveDestination(id) ==
    /\ click
    /\ id \in IdSet(destinations)
    /\ destinations' = SelectSeq(destinations, LAMBDA d : d.id # id)
    /\ selectedDestination' =
          IF selectedDestination = None THEN None
          ELSE IF selectedDestination[1].id = id THEN None
          ELSE selectedDestination
    /\ ev' = [Event("remove") EXCEPT !.id = id]
    /\ UNCHANGED <<currentLocation, positionAsked, loading, optimizing,
                   aiReasoning, nextId, batchActive, validCeps, batchI,
                   batchAddress, optVars, laterOnlyVars>>

\* Lines 113-120, from the notes field of the Modal (line 410).
earlierHandleUpdateNotes(notes) ==
    /\ click
    /\ selectedDestination # None
    /\ notes # selectedDestination[1].notes
    /\ LET id == selectedDestination[1].id
       IN /\ destinations' = notesUpdated(destinations, id, notes)
          /\ ev' = [Event("notes") EXCEPT !.id = id]
    /\ selectedDestination' = Some([selectedDestination[1] EXCEPT !.notes = notes])
    /\ UNCHANGED <<currentLocation, positionAsked, loading, optimizing,
                   aiReasoning, nextId, batchActive, validCeps, batchI,
                   batchAddress, optVars, laterOnlyVars>>

\* Lines 123-130, with the confirm answered yes.
earlierHandleClearAll ==
    /\ click
    /\ destinations # << >>
    /\ destinations' = << >>
    /\ selectedDestination' = None
    /\ aiReasoning' = None
    /\ ev' = Event("clear")
    /\ UNCHANGED <<currentLocation, positionAsked, loading, optimizing, nextId,
                   batchActive, validCeps, batchI, batchAddress, optVars,
                   laterOnlyVars>>

\* Array.prototype.reverse
reversed(seq) == [i \in 1..Len(seq) |-> seq[Len(seq) + 1 - i]]

\* A reversal that puts the reversed stops in front of the Completed ones.
invertRouteCompletedLast(dests) ==
    IF Len(pendingOf(dests)) < 2 THEN dests
    ELSE reversed(pendingOf(dests)) \o completedOf(dests)

\* Lines 132-138: the list handleInvertRoute hands to setDestinations, the
\* list itself when it returns at line 135.
invertRoute(dests) ==
    IF Len(pendingOf(dests)) < 2 THEN dests
    ELSE completedOf(dests) \o reversed(pendingOf(dests))

\* The button of line 248, disabled with fewer than two stops.
handleInvertRoute ==
    /\ click
    /\ Len(destinations) >= 2
    /\ destinations' = invertRoute(destinations)
    /\ ev' = [Event("invert") EXCEPT !.snap = destinations]
    /\ UNCHANGED <<currentLocation, positionAsked, loading, optimizing,
                   aiReasoning, selectedDestination, nextId, batchActive,
                   validCeps, batchI, batchAddress, optVars, laterOnlyVars>>

\* ------------------------------------------------------- input domains
CepA == <<"0", "1", "3", "1", "0", "-", "1", "0", "0">>
CepB == <<"0", "4", "5", "3", "8", "-", "1", "3", "2">>
BadCode == <<"b", "a", "d", "-", "c", "o", "d", "e">>
BatchInputs == {<<CepA>>, <<CepA, BadCode, CepB>>, <<BadCode>>}

AddrOutcomes == {"found", "erro", "throw", "error_body"}
AllHit == [k \in 1..NumStrategies |-> "hit"]
AllEmpty == [k \in 1..NumStrategies |-> "empty"]
GeoResponses == {AllHit, AllEmpty}

VehicleChoices == {1, 2}
NoteTexts == {"", "n"}
ReceiverNames == {"", " ", "Ana"}
TimeInputs == {None, Some(900), Some(1800)}

\* Plan Results of the reasoning provider.
PlanIds == 0..MaxIds
PlanLabels == {"Veiculo 1", "Veiculo 2"}
IdLists(n) == UNION {[1..k -> PlanIds] : k \in 0..n}
Assignment(label, ids) == [vehicleId |-> label, stopIds |-> ids]
Plan(assignments) == [assignments |-> Some(assignments), reasoning |-> "ai"]
Malformed == [assignments |-> None, reasoning |-> "ai"]

LegOutcomes == {"ok", "noroute", "throw"}
Nets(n) == {[overview |-> "ok", legs |-> l] : l \in [1..n -> LegOutcomes]}
           \cup {[overview |-> o, legs |-> [i \in 1..n |-> "ok"]] :
                     o \in {"noroute", "throw"}}

\* What the reasoning provider does besides returning a Plan Result.
Failures ==
    {[kind |-> k, result |-> Malformed] : k \in {"client_throw", "error", "json"}}

\* The Plan Results drawn where the interleaving of the handlers is the
\* subject: none placed, and the first two stops swapped under a new label.
MainProviders ==
    Failures
    \cup {[kind |-> "json", result |-> Plan(<< >>)],
          [kind |-> "json", result |-> Plan(<<Assignment("Veiculo 2", <<2, 1>>)>>)]}

\* The Plan Results drawn where reconciliation is the subject: every list
\* of at most MaxPlanRefs ids (known, unknown, repeated) under one label,
\* and every split of such a list over two labels.
PlanResults ==
    {Plan(<< >>)}
    \cup {Plan(<<Assignment(l, ids)>>) : l \in PlanLabels, ids \in IdLists(MaxPlanRefs)}
    \cup UNION {{Plan(<<Assignment("Veiculo 1", a), Assignment("Veiculo 2", b)>>) :
                     b \in IdLists(MaxPlanRefs - Len(a))} : a \in IdLists(MaxPlanRefs)}
PlanProviders == Failures \cup {[kind |-> "json", result |-> r] : r \in PlanResults}

\* The route-leg answers drawn there: no overview, every leg, no leg.
MainNets(n) ==
    {[overview |-> "noroute", legs |-> [i \in 1..n |-> "ok"]],
     [overview |-> "ok", legs |-> [i \in 1..n |-> "ok"]],
     [overview |-> "ok", legs |-> [i \in 1..n |-> "noroute"]]}

\* The list the suspended handleOptimize handed to fetchRouteDetails at
\* line 178.
routedList == segmentsInput(optDests, optPlan[1].result.assignments[1], optLoc)

\* The answers of the route-leg provider that the call of line 178 can get.
netChoices == MainNets(Len(routedList))

\* ------------------------------------------------------- specification
Next ==
    \/ \E u \in Users : handleLogin(u)
    \/ handleLogout
    \/ setCurrentLocation
    \/ \E n \in VehicleChoices : setNumberOfVehicles(n)
    \/ handleClearAll
    \/ \E i \in 1..MaxIds : setSelectedDestination(i)
    \/ onClose
    \/ \E rawInputs \in BatchInputs : handleAddCep(rawInputs)
    \/ batchActive /\ \E o \in AddrOutcomes : addCepAddress(o)
    \/ batchActive /\ \E o \in AddrOutcomes : addCepThrow(o)
    \/ batchActive /\ \E resp \in GeoResponses : addCepCoords(resp)
    \/ handleOptimize
    \/ optActive /\ optPlan = None /\ \E p \in MainProviders : optimizeReconcile(p)
    \/ optActive /\ optPlan # None /\ \E net \in netChoices : optimizePublish(net)
    \/ optActive /\ optPlan = None /\ \E p \in MainProviders : optimizeThrow(p)
    \/ \E name \in ReceiverNames : handleFinishDelivery(name)
    \/ \E id \in 1..MaxIds : removeDestination(id)
    \/ \E notes \in NoteTexts : handleUpdateNotes(notes)
    \/ \E s \in TimeInputs, e \in TimeInputs : handleSaveTimeWindow(s, e)
    \/ handleDuplicateDestination

Spec == Init /\ [][Next]_vars

\* ------------------------------------------- reconciliation on its own
\* Collections a session can hold when Calcular Rotas is clicked: stops with
\* distinct ids in any order, each Pending or Completed. The stop with id n
\* is the one handleAddCep creates, with the vehicle label and the leg an
\* earlier optimize left on it.
priorLabel(id) ==
    IF id % 3 = 1 THEN "Veiculo 1" ELSE IF id % 3 = 2 THEN "Pendente" ELSE "Veiculo 2"
priorLeg(id) == IF id = 2 THEN None ELSE Some(id - 1)
stopOf(id, status) ==
    LET address == fetchAddressByCep(IF id % 2 = 1 THEN CepA ELSE CepB, "found")[1]
        created == newDest(id, address, fetchCoordinates(address, AllHit), 1)
        routed == [created EXCEPT !.vehicleId = priorLabel(id), !.leg = priorLeg(id)]
    IN IF status = COMPLETED THEN completedStop(routed, "Ana") ELSE routed

\* The orders drawn: two or more stops, oldest first or newest first.
Orders == UNION {{o \in [1..n -> 1..MaxIds] :
                     \/ \A i \in 1..(n - 1) : o[i] < o[i + 1]
                     \/ \A i \in 1..(n - 1) : o[i] > o[i + 1]} : n \in 2..MaxIds}
Collections ==
    UNION {{[i \in 1..Len(o) |-> stopOf(o[i], st[i])] :
               st \in [1..Len(o) -> {PENDING, COMPLETED}]} : o \in Orders}

\* A session holding one of these collections, with one click left.
PlanInit ==
    /\ user = "u1"
    /\ destinations \in Collections
    /\ currentLocation \in BOOLEAN
    /\ positionAsked = 0
    /\ loading = FALSE
    /\ optimizing = FALSE
    /\ aiReasoning = None
    /\ selectedDestination = None
    /\ numberOfVehicles = 2
    /\ isDataLoaded = TRUE
    /\ localStorage = [u \in Users |-> IF u = "u1" THEN destinations ELSE << >>]
    /\ nextId = MaxIds + 1
    /\ batchActive = FALSE
    /\ validCeps = << >>
    /\ batchI = 0
    /\ batchVehicles = 1
    /\ batchAddress = None
    /\ optActive = FALSE
    /\ optDests = << >>
    /\ optLoc = FALSE
    /\ optPlan = None
    /\ ev = Event("init")
    /\ clicks = MaxClicks - 1

PlanNext ==
    \/ handleOptimize
    \/ optActive /\ optPlan = None /\ \E p \in PlanProviders : optimizeReconcile(p)
    \/ optActive /\ optPlan # None /\ \E net \in netChoices : optimizePublish(net)
    \/ optActive /\ optPlan = None /\ \E p \in PlanProviders : optimizeThrow(p)

SpecPlan == PlanInit /\ [][PlanNext]_vars

\* ----------------------------------------- one optimize, every leg answer
\* A stop as the collection can hold it: with the coordinates
\* fetchCoordinates found ("hit"), with a coordinate that is 0 ("zero"), or,
\* loaded from localStorage, without them ("none": AddressData.lat and lng
\* are optional, types.ts lines 18-19).
routeStop(id, status, located) ==
    LET d == stopOf(id, status)
    IN IF located = "none" THEN [d EXCEPT !.address.coords = None]
       ELSE [d EXCEPT !.address.coords =
                fetchCoordinates(d.address, [k \in 1..NumStrategies |-> located])]

\* The collections drawn: stops 1..n in the order they were added, each
\* Pending or Completed, with or without coordinates.
RouteCollections ==
    UNION {{[i \in 1..n |-> routeStop(i, st[i], co[i])] :
               st \in [1..n -> {PENDING, COMPLETED}],
               co \in [1..n -> {"hit", "zero", "none"}]} :
           n \in 2..MaxIds}

\* The provider's outcomes that optimizeRoute turns into its fallback
\* (lines 135-178): the request fails, the response has no text, the text
\* is not JSON.
SoftFailures ==
    {[kind |-> k, result |-> Malformed] : k \in {"error", "notext", "unparsable"}}

\* The provider's outcomes drawn: every failure, no stop placed, and the
\* first two stops swapped under a new label.
RouteProviders ==
    Failures \cup SoftFailures
    \cup {[kind |-> "json", result |-> Plan(<< >>)],
          [kind |-> "json", result |-> Plan(<<Assignment("Veiculo 2", <<2, 1>>)>>)]}

\* Every answer of the route-leg provider to the call of line 178.
routeNetChoices == Nets(Len(routedList))

\* A session holding one of these collections, with one click left.
RouteInit ==
    /\ user = "u1"
    /\ destinations \in RouteCollections
    /\ currentLocation \in BOOLEAN
    /\ positionAsked = 0
    /\ loading = FALSE
    /\ optimizing = FALSE
    /\ aiReasoning = None
    /\ selectedDestination = None
    /\ numberOfVehicles = 2
    /\ isDataLoaded = TRUE
    /\ localStorage = [u \in Users |-> IF u = "u1" THEN destinations ELSE << >>]
    /\ nextId = MaxIds + 1
    /\ batchActive = FALSE
    /\ validCeps = << >>
    /\ batchI = 0
    /\ batchVehicles = 1
    /\ batchAddress = None
    /\ optActive = FALSE
    /\ optDests = << >>
    /\ optLoc = FALSE
    /\ optPlan = None
    /\ ev = Event("init")
    /\ clicks = MaxClicks - 1

RouteNext ==
    \/ handleOptimize
    \/ optActive /\ optPlan = None /\ \E p \in RouteProviders : optimizeReconcile(p)
    \/ optActive /\ optPlan # None /\ \E net \in routeNetChoices : optimizePublish(net)
    \/ optActive /\ optPlan = None /\ \E p \in RouteProviders : optimizeThrow(p)

SpecRoute == RouteInit /\ [][RouteNext]_vars

\* ------------------------------------------------ the earlier App as a whole
\* What is typed in its field, the answers of the coordinate provider, what
\* the reasoning provider does (the client cannot be built, the request
\* fails, the answer is a JSON document without sortedIds, or one that lists
\* the stops given in their order, in reverse order, or without the first),
\* and the answers of the route-leg provider.
EarlierCodes == {CepA}
EarlierResponses == {AllHit, AllEmpty}
EarlierResult(sortedIds) == [sortedIds |-> Some(sortedIds), reasoning |-> "ai"]
EarlierMalformed == [sortedIds |-> None, reasoning |-> "ai"]
EarlierFailures ==
    {[kind |-> k, result |-> EarlierMalformed] : k \in {"client_throw", "error", "json"}}
EarlierProviders ==
    LET ids == Ids(pendingOf(optDests))
    IN EarlierFailures
       \cup {[kind |-> "json", result |-> EarlierResult(s)] :
                 s \in {ids, reversed(ids), IF ids = << >> THEN ids ELSE Tail(ids)}}
EarlierNets(n) ==
    {[overview |-> "ok", legs |-> l] : l \in [1..n -> {"ok", "noroute"}]}
    \cup {[overview |-> "noroute", legs |-> [i \in 1..n |-> "ok"]]}

\* The earlier App as mounted (lines 11-28): no stop, and the position
\* asked for once.
InvertInit ==
    /\ user = NoUser
    /\ destinations = << >>
    /\ currentLocation = FALSE
    /\ positionAsked = 1
    /\ loading = FALSE
    /\ optimizing = FALSE
    /\ aiReasoning = None
    /\ selectedDestination = None
    /\ numberOfVehicles = 1
    /\ isDataLoaded = FALSE
    /\ localStorage = [u \in Users |-> << >>]
    /\ nextId = 1
    /\ batchActive = FALSE
    /\ validCeps = << >>
    /\ batchI = 0
    /\ batchVehicles = 1
    /\ batchAddress = None
    /\ optActive = FALSE
    /\ optDests = << >>
    /\ optLoc = FALSE
    /\ optPlan = None
    /\ ev = Event("init")
    /\ clicks = 0

InvertNext ==
    \/ earlierSetCurrentLocation
    \/ earlierPositionDenied
    \/ \E cepInput \in EarlierCodes : earlierHandleAddCep(cepInput)
    \/ batchActive /\ \E o \in AddrOutcomes : earlierAddCepAddress(o)
    \/ batchActive /\ \E o \in AddrOutcomes : earlierAddCepThrow(o)
    \/ batchActive /\ \E resp \in EarlierResponses : earlierAddCepCoords(resp)
    \/ earlierHandleOptimize
    \/ optActive /\ optPlan = None /\
          \E p \in EarlierProviders : earlierOptimizeReconcile(p)
    \/ optActive /\ optPlan = None /\
          \E p \in EarlierProviders : earlierOptimizeThrow(p)
    \/ optActive /\ optPlan # None /\
          \E net \in EarlierNets(Len(reorderedPending(optDests, optPlan[1].sortedIds))) :
              earlierOptimizePublish(net)
    \/ \E i \in 1..MaxIds : earlierSetSelectedDestination(i)
    \/ earlierOnClose
    \/ earlierMarkAsCompleted
    \/ \E id \in 1..MaxIds : earlierRemoveDestination(id)
    \/ \E notes \in NoteTexts : earlierHandleUpdateNotes(notes)
    \/ earlierHandleClearAll
    \/ handleInvertRoute

SpecInvert == InvertInit /\ [][InvertNext]_vars

\* --------------------------------------------- two users, one browser
\* The answers of the coordinate provider drawn here: a result at once, and
\* a result whose latitude parses to Infinity.
InfFirst == [k \in 1..NumStrategies |-> IF k = 1 THEN "inf" ELSE "hit"]
SessionResponses == {AllHit, InfFirst}
\* What each user types: the first user one code, once or twice, the
\* second user another code, so that a stop tells whose batch made it.
SessionInputs(u) == IF u = "u1" THEN {<<CepA>>, <<CepA, CepA>>} ELSE {<<CepB>>}

\* Logins of either user, batches, optimizes and the edits that change the
\* collection, interleaved.
SessionNext ==
    \/ \E u \in Users : handleLogin(u)
    \/ handleLogout
    \/ setCurrentLocation
    \/ \E rawInputs \in SessionInputs(user) : handleAddCep(rawInputs)
    \/ batchActive /\ \E o \in {"found", "erro"} : addCepAddress(o)
    \/ batchActive /\ \E resp \in SessionResponses : addCepCoords(resp)
    \/ handleOptimize
    \/ optActive /\ optPlan = None /\ \E p \in MainProviders : optimizeReconcile(p)
    \/ optActive /\ optPlan # None /\ \E net \in netChoices : optimizePublish(net)
    \/ optActive /\ optPlan = None /\ \E p \in MainProviders : optimizeThrow(p)
    \/ \E id \in 1..MaxIds : removeDestination(id)
    \/ handleUpdateNotes("n")

SpecSession == Init /\ [][SessionNext]_vars

\* ------------------------------------------------ the edits on their own
\* The collections drawn: stops with distinct ids below MaxIds in any order,
\* each Pending or Completed, so that one more stop can be made.
EditCollections ==
    UNION {{[i \in 1..n |-> stopOf(o[i], st[i])] :
               o \in {f \in [1..n -> 1..(MaxIds - 1)] :
                         \A i, j \in 1..n : i # j => f[i] # f[j]},
               st \in [1..n -> {PENDING, COMPLETED}]} : n \in 1..(MaxIds - 1)}

\* What the Modal can hold over a collection: nothing, the copy of one of
\* its stops, or the copy of a stop an optimize has published away.
EditSelections(dests) ==
    {None}
    \cup {Some(dests[i]) : i \in 1..Len(dests)}
    \cup {Some(stopOf(id, PENDING)) : id \in (1..(MaxIds - 1)) \ IdSet(dests)}

\* A session holding one of these collections, with two clicks left.
EditInit ==
    /\ user = "u1"
    /\ destinations \in EditCollections
    /\ currentLocation = FALSE
    /\ positionAsked = 0
    /\ loading = FALSE
    /\ optimizing = FALSE
    /\ aiReasoning = None
    /\ selectedDestination \in EditSelections(destinations)
    /\ numberOfVehicles = 1
    /\ isDataLoaded = TRUE
    /\ localStorage = [u \in Users |-> IF u = "u1" THEN destinations ELSE << >>]
    /\ nextId = MaxIds
    /\ batchActive = FALSE
    /\ validCeps = << >>
    /\ batchI = 0
    /\ batchVehicles = 1
    /\ batchAddress = None
    /\ optActive = FALSE
    /\ optDests = << >>
    /\ optLoc = FALSE
    /\ optPlan = None
    /\ ev = Event("init")
    /\ clicks = MaxClicks - 2

EditNext ==
    \/ \E i \in 1..MaxIds : setSelectedDestination(i)
    \/ \E name \in ReceiverNames : handleFinishDelivery(name)
    \/ \E id \in 1..MaxIds : removeDestination(id)
    \/ \E notes \in NoteTexts : handleUpdateNotes(notes)
    \/ \E s \in TimeInputs, e \in TimeInputs : handleSaveTimeWindow(s, e)
    \/ handleDuplicateDestination

SpecEdit == EditInit /\ [][EditNext]_vars

\* ------------------------------------------------- one code, every answer
\* Every combination of answers the four queries can get.
AllResponses == [1..NumStrategies -> StrategyResponses]

\* A session that has just submitted one code to an empty collection.
GeoInit ==
    /\ user = "u1"
    /\ destinations = << >>
    /\ currentLocation = FALSE
    /\ positionAsked = 0
    /\ loading = TRUE
    /\ optimizing = FALSE
    /\ aiReasoning = None
    /\ selectedDestination = None
    /\ numberOfVehicles = 1
    /\ isDataLoaded = TRUE
    /\ localStorage = [u \in Users |-> << >>]
    /\ nextId = 1
    /\ batchActive = TRUE
    /\ validCeps = validCepsOf(<<CepA>>)
    /\ batchI = 0
    /\ batchVehicles = 1
    /\ batchAddress = None
    /\ optActive = FALSE
    /\ optDests = << >>
    /\ optLoc = FALSE
    /\ optPlan = None
    /\ ev = [Event("addCepStart") EXCEPT !.raw = <<CepA>>]
    /\ clicks = 2

GeoNext ==
    \/ batchActive /\ \E o \in AddrOutcomes : addCepAddress(o)
    \/ batchActive /\ \E o \in AddrOutcomes : addCepThrow(o)
    \/ batchActive /\ \E resp \in AllResponses : addCepCoords(resp)

SpecGeo == GeoInit /\ [][GeoNext]_vars

\* ------------------------------------------------------ one batch of codes
\* The texts submitted: up to MaxIds codes, each well formed or not.
BatchTexts == UNION {[1..n -> {CepA, CepB, BadCode}] : n \in 1..MaxIds}
\* The answers the four queries get for one code: each found at once, none
\* found, and a failed request, an unparsable and a non-finite result
\* before a good one.
LateHit == <<"throw", "nan", "inf", "hit">>
BatchResponses == {AllHit, AllEmpty, LateHit}

\* A session with an empty collection, with one click left.
BatchInit ==
    /\ user = "u1"
    /\ destinations = << >>
    /\ currentLocation = FALSE
    /\ positionAsked = 0
    /\ loading = FALSE
    /\ optimizing = FALSE
    /\ aiReasoning = None
    /\ selectedDestination = None
    /\ numberOfVehicles \in VehicleChoices
    /\ isDataLoaded = TRUE
    /\ localStorage = [u \in Users |-> << >>]
    /\ nextId = 1
    /\ batchActive = FALSE
    /\ validCeps = << >>
    /\ batchI = 0
    /\ batchVehicles = 1
    /\ batchAddress = None
    /\ optActive = FALSE
    /\ optDests = << >>
    /\ optLoc = FALSE
    /\ optPlan = None
    /\ ev = Event("init")
    /\ clicks = MaxClicks - 1

BatchNext ==
    \/ \E rawInputs \in BatchTexts : handleAddCep(rawInputs)
    \/ batchActive /\ \E o \in AddrOutcomes : addCepAddress(o)
    \/ batchActive /\ \E o \in AddrOutcomes : addCepThrow(o)
    \/ batchActive /\ \E resp \in BatchResponses : addCepCoords(resp)

SpecBatch == BatchInit /\ [][BatchNext]_vars

\* =================================================================== claims
\* Vocabulary of the claims, written from their text and not from the code.
isPending(d) == d.status = PENDING
isCompleted(d) == d.status = COMPLETED

\* The state right after an optimize has published.
justPublished == ev.op = "optimizePublish"
\* The collection that optimize started with, and its two parts.
atStart == ev.snap
pendingAtStart == SelectSeq(ev.snap, isPending)
completedAtStart == SelectSeq(ev.snap, isCompleted)
\* The Pending part of the published collection.
publishedPending == SelectSeq(destinations, isPending)

\* The ids the Plan Result lists, in planner order, each with the label of
\* the assignment that lists it.
RECURSIVE planRefs(_)
planRefs(assignments) ==
    IF assignments = << >> THEN << >>
    ELSE LET a == Head(assignments)
         IN [k \in 1..Len(a.stopIds) |-> [id |-> a.stopIds[k], label |-> a.vehicleId]]
            \o planRefs(Tail(assignments))
usedRefs == planRefs(ev.result.assignments[1])
referenced == {usedRefs[k].id : k \in 1..Len(usedRefs)}
\* The references to stops that were Pending at start, and the Pending
\* stops no reference names.
validRefs ==
    LET known == IdSet(pendingAtStart)
    IN SelectSeq(usedRefs, LAMBDA r : r.id \in known)
leftover ==
    LET named == referenced
    IN SelectSeq(pendingAtStart, LAMBDA d : d.id \notin named)
occurrences(seq, id) == Cardinality({i \in 1..Len(seq) : seq[i].id = id})

\* C1: the Pending part of the collection optimize publishes holds every
\* stop that was Pending when optimize started exactly once.
C1_EveryPendingExactlyOnce ==
    justPublished =>
        \A i \in 1..Len(pendingAtStart) :
            occurrences(publishedPending, pendingAtStart[i].id) = 1

\* C2: a Completed stop never becomes Pending again: across every step, a
\* stop that is Completed and is still in the collection is still Completed,
\* the step in which an optimize publishes included.
C2_CompletedNeverReverts ==
    [][\A i \in 1..Len(destinations) : \A j \in 1..Len(destinations') :
          (isCompleted(destinations[i]) /\ destinations'[j].id = destinations[i].id)
              => isCompleted(destinations'[j])]_vars

\* C3: within a session a stop leaves the collection only by being removed
\* or by clear-all: every other step of a logged-in user that is not the
\* logout, an optimize publishing included, keeps every stop the collection
\* holds.
C3_StopsOnlyLeaveByRemoval ==
    [][(user # NoUser /\ user' = user /\ ev'.op \notin {"remove", "clear"})
          => IdSet(destinations) \subseteq IdSet(destinations')]_vars

\* C4: once clear-all or logout has emptied the collection, a batch add or
\* an optimize that started before it adds no stop to the collection.
C4_NoStopAfterClearOrLogout ==
    [][(ev.op \in {"clear", "logout"}
          /\ ev'.op \in {"addCepAppend", "addCepSkip", "optimizePublish"})
             => IdSet(destinations') \subseteq IdSet(destinations)]_vars

\* C5: at most one batch operation (a batch add or an optimize) is in flight
\* at any time.
C5_OneBatchOperationAtATime == ~(batchActive /\ optActive)

\* C6: a change of notes, a change of time window or a removal made while an
\* optimize is in flight is not undone when that optimize publishes.
C6_DirectMutationSurvivesPublish ==
    [][(optActive /\ ev.op \in {"notes", "timeWindow", "remove"}
          /\ ev'.op = "optimizePublish")
             => \A j \in 1..Len(destinations') :
                    destinations'[j].id = ev.id =>
                        /\ ev.op # "remove"
                        /\ \E i \in 1..Len(destinations) :
                              /\ destinations[i].id = ev.id
                              /\ destinations[i].notes = destinations'[j].notes
                              /\ destinations[i].timeWindow = destinations'[j].timeWindow]_vars

\* C7: the published Pending sequence is the stops the planner placed, in
\* planner order, followed by the unreferenced Pending stops in their prior
\* relative order.
C7_PlannerOrderThenLeftover ==
    justPublished =>
        LET placed == validRefs
        IN Ids(publishedPending) =
              [k \in 1..Len(placed) |-> placed[k].id] \o Ids(leftover)

C7_Witness ==
    /\ justPublished
    /\ Len(validRefs) >= 1
    /\ Len(leftover) >= 2
    /\ validRefs[1].id # pendingAtStart[1].id
    /\ ev.loc /\ ev.net.overview = "ok"

\* C8: a referenced id that is not the id of a Pending stop adds no stop to
\* the published collection and leaves the Completed stops as they were: the
\* stops with that id are the ones the collection had (none for an unknown
\* id), and the Completed stops are the same, in the same order.
C8_ForeignIdsDropped ==
    justPublished =>
        LET refs == usedRefs
            known == IdSet(pendingAtStart)
        IN \A k \in 1..Len(refs) :
              refs[k].id \notin known =>
                  /\ SelectSeq(destinations, LAMBDA d : d.id = refs[k].id)
                       = SelectSeq(atStart, LAMBDA d : d.id = refs[k].id)
                  /\ SelectSeq(destinations, isCompleted) = completedAtStart

C8_Witness ==
    /\ justPublished
    /\ \E j, k \in 1..Len(usedRefs) :
          /\ usedRefs[j].id \notin IdSet(atStart)
          /\ usedRefs[k].id \in IdSet(completedAtStart)
    /\ publishedPending # << >>

\* C9: every stop the planner placed carries the label of the assignment
\* that placed it, and every unreferenced Pending stop the label it had.
C9_VehicleLabels ==
    justPublished =>
        LET placed == validRefs
            rest == leftover
            now == publishedPending
        IN /\ Len(now) = Len(placed) + Len(rest)
           /\ \A k \in 1..Len(placed) : now[k].vehicleId = placed[k].label
           /\ \A k \in 1..Len(rest) :
                 now[Len(placed) + k].vehicleId = rest[k].vehicleId

C9_Witness ==
    /\ justPublished
    /\ Len(ev.result.assignments[1]) = 2
    /\ \E j, k \in 1..Len(validRefs) :
          /\ validRefs[j].label # validRefs[k].label
          /\ \E i \in 1..Len(pendingAtStart) :
                /\ pendingAtStart[i].id = validRefs[j].id
                /\ pendingAtStart[i].vehicleId # validRefs[j].label
    /\ \E k \in 1..Len(leftover) : leftover[k].vehicleId = "Pendente"

\* C10: the published collection is the Completed stops, in their prior
\* relative order and unchanged in every field, followed by Pending stops
\* only.
C10_CompletedPrefixUnchanged ==
    justPublished =>
        LET n == Len(completedAtStart)
        IN /\ Len(destinations) >= n
           /\ SubSeq(destinations, 1, n) = completedAtStart
           /\ \A i \in (n + 1)..Len(destinations) : isPending(destinations[i])

C10_Witness ==
    /\ justPublished
    /\ Len(completedAtStart) = 2
    /\ isPending(atStart[1])
    /\ \E i \in 1..Len(completedAtStart) : completedAtStart[i].leg # None
    /\ ev.loc /\ ev.net.overview = "ok"
    /\ \E i \in 1..Len(publishedPending) : publishedPending[i].leg = Some(StartOrigin)

\* C11: during an optimize only stops that were Pending when it started are
\* handed to the planner and to the route-leg provider; no Completed stop is
\* among them.
C11_OnlyPendingPlannedAndRouted ==
    justPublished =>
        LET pending == pendingAtStart
            known == IdSet(pendingAtStart)
            done == IdSet(completedAtStart)
        IN /\ \A i \in 1..Len(ev.sent) :
                 /\ isPending(ev.sent[i])
                 /\ \E j \in 1..Len(pending) : pending[j] = ev.sent[i]
           /\ \A i \in 1..Len(ev.routed) :
                 /\ isPending(ev.routed[i])
                 /\ ev.routed[i].id \in known
                 /\ ev.routed[i].id \notin done

C11_Witness ==
    /\ justPublished
    /\ completedAtStart # << >>
    /\ Len(ev.sent) >= 2
    /\ Len(ev.routed) >= 2
    /\ \E k \in 1..Len(usedRefs) : usedRefs[k].id \in IdSet(completedAtStart)
    /\ ev.net.overview = "ok"

\* Vocabulary of the geocoding claims.
\* The state right after a step of a batch add in which geocode ran.
geocoded == ev.op \in {"addCepAppend", "addCepSkip"} /\ ev.address # None
\* The requests to the coordinate provider the step issued, in order.
geoRequests == SelectSeq(ev.calls, LAMBDA c : c.to = "nominatim")
requestTypes == [i \in 1..Len(geoRequests) |-> geoRequests[i].type]
\* A response whose latitude and longitude both parse as numbers, and one
\* whose numbers are also finite.
parses(response) == response \in {"hit", "zero", "inf"}
plausible(response) == response \in {"hit", "zero"}

\* C12: once the k-th request of a geocode call returns a result whose two
\* coordinates parse as numbers, no further request is issued and geocode
\* returns the coordinates of that k-th request.
C12_StopAtFirstSuccess ==
    geocoded =>
        \A k \in 1..Len(geoRequests) :
            parses(ev.resp[k]) =>
                /\ Len(geoRequests) = k
                /\ ev.coords # None
                /\ ev.coords[1].by = k

C12_Witness ==
    /\ geocoded
    /\ Len(geoRequests) = 2
    /\ ev.resp = <<"empty", "hit", "hit", "hit">>
    /\ ev.coords # None

\* C13: geocode issues its requests in this order: the structured query by
\* street, locality and region; the query by postal code alone; the free
\* text of street, locality, region; the free text of district, locality,
\* region.
SpecStrategyOrder == <<"street_structured", "cep", "street_query", "district_query">>
C13_StrategyOrder ==
    geocoded =>
        /\ Len(requestTypes) <= Len(SpecStrategyOrder)
        /\ requestTypes = SubSeq(SpecStrategyOrder, 1, Len(requestTypes))

\* C14: geocode returns coordinates exactly when one of the four responses
\* is non-empty with two coordinates that parse as finite numbers, and then
\* those of the earliest such response.
C14_CoordinatesIffFiniteResult ==
    geocoded =>
        LET good == {k \in 1..NumStrategies : plausible(ev.resp[k])}
        IN /\ (ev.coords # None) <=> (good # {})
           /\ good # {} => ev.coords[1].by = CHOOSE k \in good : \A j \in good : k <= j

\* Vocabulary of the batch claims.
\* The state right after the step of a batch add that ended its dealing
\* with one code.
batchStepped == ev.op \in {"addCepAppend", "addCepSkip", "addCepThrow"}
\* The code that step dealt with.
steppedCode == IF ev.op = "addCepThrow" THEN validCeps[batchI + 1] ELSE validCeps[batchI]
\* The state right after the address lookup of a code has answered, and
\* that code.
lookedUp ==
    \/ ev.op \in {"addCepAddress", "addCepThrow"}
    \/ ev.op = "addCepSkip" /\ ev.address = None
lookedUpCode == IF ev.op = "addCepSkip" THEN validCeps[batchI] ELSE validCeps[batchI + 1]
addressRequests == SelectSeq(ev.calls, LAMBDA c : c.to = "viacep")
digitsOnly(raw) == SelectSeq(raw, LAMBDA ch : ch \in {"0", "1", "2", "3", "4", "5", "6", "7", "8", "9"})
wellFormed(raw) == Len(digitsOnly(raw)) = 8
\* The code a stop was made for: the digits of the postal code it carries.
codeOf(d) == digitsOnly(d.address.cep)
cepsOf(dests) == [i \in 1..Len(dests) |-> codeOf(dests[i])]
\* sub is seq with some elements left out.
RECURSIVE isSubsequence(_, _)
isSubsequence(sub, seq) ==
    IF sub = << >> THEN TRUE
    ELSE IF seq = << >> THEN FALSE
    ELSE IF Head(sub) = Head(seq) THEN isSubsequence(Tail(sub), Tail(seq))
    ELSE isSubsequence(sub, Tail(seq))

\* C15: every request to the coordinate provider comes right after one
\* delay that follows the previous request, within one stop and from one
\* stop of the batch to the next.
C15_DelayBeforeEveryGeoCall ==
    batchStepped =>
        \A i \in 1..Len(ev.calls) :
            ev.calls[i].to = "nominatim" =>
                /\ i > 1
                /\ ev.calls[i - 1].to = "delay"

C15_Witness ==
    /\ batchStepped
    /\ batchI >= 2
    /\ Len(destinations) >= 2
    /\ Len(geoRequests) = NumStrategies

\* C16: a raw input that does not reduce to exactly 8 digits is dropped
\* before any request (no lookup, no geocoding, no stop), and for every raw
\* input that does, in the order submitted, the address lookup is issued
\* with its 8 digits.
C16_MalformedShortCircuits ==
    /\ ev.op \in {"addCepStart", "addCepNoValid"} =>
          LET good == SelectSeq(ev.raw, wellFormed)
          IN /\ Len(ev.calls) = 0
             /\ destinations = << >>
             /\ (ev.op = "addCepNoValid") <=> (good = << >>)
             /\ ev.op = "addCepStart" =>
                   validCeps = [i \in 1..Len(good) |-> digitsOnly(good[i])]
    /\ lookedUp =>
          /\ Len(addressRequests) = 1
          /\ ev.calls[1].to = "viacep"
          /\ ev.calls[1].code = lookedUpCode
          /\ Len(ev.calls[1].code) = 8
          /\ digitsOnly(ev.calls[1].code) = ev.calls[1].code
    /\ \A i \in 1..Len(destinations) :
          \E k \in 1..Len(validCeps) : codeOf(destinations[i]) = validCeps[k]

C16_Witness ==
    /\ ev.op = "addCepAddress"
    /\ Len(validCeps) = 2
    /\ batchI = 1
    /\ cepsOf(destinations) = <<digitsOnly(CepB)>>
    /\ ev.calls = <<Call("viacep", digitsOnly(CepA), "")>>

\* C17: when the address lookup ends in a provider error or a not-found
\* reply, the lookup yields no address, no request goes to the coordinate
\* provider and no stop is created.
C17_LookupFailureYieldsNotFound ==
    (batchStepped /\ ev.addr \in {"erro", "throw", "error_body"}) =>
        /\ ev.address = None
        /\ Len(geoRequests) = 0
        /\ ev.op # "addCepAppend"

\* C18: when the address lookup succeeds and every geocoding strategy
\* fails, the batch add appends a Pending stop with the resolved address and
\* without coordinates.
C18_StopKeptWithoutCoordinates ==
    (geocoded /\ ev.coords = None) =>
        /\ destinations # << >>
        /\ LET d == destinations[Len(destinations)]
           IN /\ isPending(d)
              /\ codeOf(d) = steppedCode
              /\ d.address.coords = None

\* C19: in a batch of malformed, not-found and resolvable codes a failure
\* on one code does not end the batch, which goes on to the next code until
\* every code was dealt with, and the stops it creates stand in the
\* collection in the order of their codes.
\* The number of codes of the batch dealt with after a step of it.
dealtWith == IF ev.op = "addCepThrow" THEN batchI + 1 ELSE batchI
C19_BatchContinuesInOrder ==
    batchStepped =>
        /\ batchActive <=> dealtWith < Len(validCeps)
        /\ isSubsequence(cepsOf(destinations), SubSeq(validCeps, 1, dealtWith))
        /\ ev.op = "addCepAppend" =>
              codeOf(destinations[Len(destinations)]) = validCeps[batchI]

\* C20: the stop of one code is in the collection when the lookup of the
\* next code is issued, and every step of the batch, whatever its outcome,
\* keeps the stops the collection already holds.
C20_IncrementalEmission ==
    [][(ev'.op \in {"addCepAddress", "addCepAppend", "addCepSkip", "addCepThrow"}) =>
          /\ Len(destinations') >= Len(destinations)
          /\ SubSeq(destinations', 1, Len(destinations)) = destinations
          /\ ev.op = "addCepAppend" =>
                /\ ev.id \in IdSet(destinations)
                /\ ev.id \in IdSet(destinations')]_vars

C20_Witness ==
    /\ ev.op \in {"addCepSkip", "addCepThrow"}
    /\ batchI >= 2
    /\ Len(destinations) = 2
    /\ ev.addr # "found"

\* --------------------------------------------------- the segments operation
\* The state right after an optimize has published a collection whose
\* Pending part went through fetchRouteDetails.
justRouted == justPublished /\ ev.routed # << >>
\* The list fetchRouteDetails was given and the list it returned.
segmentsIn == ev.routed
segmentsOut == SubSeq(destinations, Len(completedAtStart) + 1, Len(destinations))
\* The answer to the two-point request of the i-th stop, and whether the
\* loop got as far as sending it.
legAnswer(i) == ev.net.legs[i]
legRequested(i) ==
    /\ ev.net.overview = "ok"
    /\ \A j \in 1..(i - 1) : legAnswer(j) # "throw"

\* C21: a stop whose leg request fails or returns no route comes back from
\* segments with its leg fields as they were in the input.
C21_FailedLegKeepsFields ==
    justRouted =>
        /\ Len(segmentsOut) = Len(segmentsIn)
        /\ \A i \in 1..Len(segmentsIn) :
              (legRequested(i) /\ legAnswer(i) # "ok") =>
                  /\ segmentsOut[i].id = segmentsIn[i].id
                  /\ segmentsOut[i].leg = segmentsIn[i].leg

C21_Witness ==
    /\ justRouted
    /\ \A i \in 1..Len(segmentsIn) : legAnswer(i) # "throw"
    /\ \E i \in 1..Len(segmentsIn) :
          /\ legRequested(i)
          /\ legAnswer(i) = "noroute"
          /\ segmentsIn[i].leg # None
          /\ segmentsOut[i].leg = segmentsIn[i].leg
    /\ \E j \in 1..Len(segmentsIn) :
          /\ legAnswer(j) = "ok"
          /\ segmentsOut[j].leg # segmentsIn[j].leg

\* The requests segments sent to the route-leg provider, in order, and
\* those of the per-stop loop (the first request is the one of lines 35-44).
routeRequests == SelectSeq(ev.calls, LAMBDA c : c.to = "osrm")
legRequests == IF routeRequests = << >> THEN << >> ELSE Tail(routeRequests)
\* A leg counts as computed when the stop carries the leg of the request
\* sent for it.
legComputed(i) ==
    /\ i <= Len(legRequests)
    /\ segmentsOut[i].leg = Some(legRequests[i].code[1])

\* C22: segments sends only two-point requests, one per stop of the list
\* and in list order, and every stop whose own request got a route has its
\* leg computed, whatever the other requests answered.
C22_OnlyTwoPointRequests ==
    justRouted =>
        /\ \A k \in 1..Len(routeRequests) : Len(routeRequests[k].code) <= 2
        /\ Len(routeRequests) = Len(segmentsIn)
        /\ \A i \in 1..Len(segmentsIn) :
              /\ Len(routeRequests[i].code) = 2
              /\ routeRequests[i].code[2] = segmentsIn[i].id
              /\ ev.net.legs[i] = "ok" => segmentsOut[i].leg = Some(routeRequests[i].code[1])

\* The last stop before position i that has coordinates (0, the start
\* location, when there is none).
\* A stop has valid coordinates when it has a latitude and a longitude
\* and both are finite numbers.
located(d) ==
    IF d.address.coords = None THEN FALSE ELSE d.address.coords[1].finite
RECURSIVE predecessor(_, _)
predecessor(list, i) ==
    IF i <= 1 THEN StartOrigin
    ELSE IF located(list[i - 1]) THEN list[i - 1].id
    ELSE predecessor(list, i - 1)

\* C23: a stop without coordinates has no leg request sent for it, comes
\* back unchanged, and is the origin of no leg request.
C23_NoRequestWithoutCoordinates ==
    justRouted =>
        \A i \in 1..Len(segmentsIn) :
            ~located(segmentsIn[i]) =>
                /\ \A k \in 1..Len(legRequests) :
                      /\ legRequests[k].code[1] # segmentsIn[i].id
                      /\ legRequests[k].code[2] # segmentsIn[i].id
                /\ segmentsOut[i] = segmentsIn[i]

\* C24: the leg request of a stop with coordinates starts at the last stop
\* with coordinates before it (the start location when there is none),
\* whatever the request of that stop answered, and the leg stored is the
\* leg of that request.
C24_LegFromImmediatePredecessor ==
    (justRouted /\ ev.net.overview = "ok"
       /\ \A j \in 1..Len(segmentsIn) : legAnswer(j) # "throw") =>
        \A i \in 1..Len(segmentsIn) :
            located(segmentsIn[i]) =>
                /\ \E k \in 1..Len(legRequests) :
                      legRequests[k].code = <<predecessor(segmentsIn, i), segmentsIn[i].id>>
                /\ legAnswer(i) = "ok" =>
                      segmentsOut[i].leg = Some(predecessor(segmentsIn, i))

\* C26: within one call of segments, no request to the route-leg provider
\* directly follows another one: the delay of line 102 lies between them.
C26_DelayBetweenRouteRequests ==
    justRouted =>
        \A k \in 1..(Len(ev.calls) - 1) :
            ~(ev.calls[k].to = "osrm" /\ ev.calls[k + 1].to = "osrm")

\* ------------------------------------------------------ legs in the session
\* The stops of the collection with the status of its i-th stop, up to and
\* including that stop.
sameStatusUpTo(i) ==
    SelectSeq(SubSeq(destinations, 1, i),
              LAMBDA d : d.status = destinations[i].status)

\* C25: in every reachable state a stop that carries a leg carries the leg
\* from its current immediate predecessor: the last stop with coordinates
\* before it in the collection, or before it among the stops of its own
\* status (the start location when there is none).
C25_LegsFollowCurrentOrder ==
    \A i \in 1..Len(destinations) :
        destinations[i].leg # None =>
            \/ destinations[i].leg = Some(predecessor(destinations, i))
            \/ destinations[i].leg =
                  Some(predecessor(sameStatusUpTo(i), Len(sameStatusUpTo(i))))

\* --------------------------------------------------- the plan operation
\* The list reconciliation builds from the Plan Result the optimize used.
reconciled == newOrderedList(atStart, ev.result.assignments[1])
\* The outcomes of the provider that are a failed call, a response without
\* text, or a text that does not parse.
providerFailed == ev.aiCalls = 1 /\ ev.kind \in {"error", "notext", "unparsable"}

\* C27: with exactly one Pending stop, plan asks the reasoning provider
\* nothing and returns the Plan Result that lists that stop alone, and
\* reconciliation yields that stop as it was.
C27_SinglePendingTrivialPlan ==
    (justPublished /\ Len(pendingAtStart) = 1) =>
        /\ ev.aiCalls = 0
        /\ Len(usedRefs) = 1
        /\ usedRefs[1].id = pendingAtStart[1].id
        /\ reconciled = pendingAtStart

\* C28: with no Pending stop, plan asks the reasoning provider nothing and
\* returns the empty Plan Result, no route-leg request is sent, and the
\* Completed stops are published unchanged and in the same order.
C28_NoPendingEmptyPlan ==
    (justPublished /\ pendingAtStart = << >>) =>
        /\ ev.aiCalls = 0
        /\ ev.result.assignments = Some(<< >>)
        /\ routeRequests = << >>
        /\ destinations = atStart

C28_Witness ==
    /\ justPublished
    /\ pendingAtStart = << >>
    /\ Len(atStart) >= 2
    /\ ev.loc
    /\ ev.kind = "error"
    /\ destinations = atStart

\* C29: when the call to the reasoning provider fails, returns no text or
\* returns text that does not parse, the Plan Result is the fallback: one
\* assignment under the synthetic label listing every Pending id in the
\* current order, with the fallback rationale; the published Pending order
\* is the order before the optimize.
C29_FallbackKeepsOrder ==
    (justPublished /\ providerFailed) =>
        /\ ev.result.assignments =
              Some(<<[vehicleId |-> FallbackVehicle, stopIds |-> Ids(pendingAtStart)]>>)
        /\ ev.result.reasoning = FallbackReasoning
        /\ aiReasoning = Some(FallbackReasoning)
        /\ Ids(publishedPending) = Ids(pendingAtStart)

C29_Witness ==
    /\ justRouted
    /\ providerFailed
    /\ ev.kind = "unparsable"
    /\ Len(pendingAtStart) >= 2
    /\ completedAtStart # << >>
    /\ Ids(publishedPending) = Ids(pendingAtStart)
    /\ \E i \in 1..Len(publishedPending) :
          publishedPending[i].vehicleId # pendingAtStart[i].vehicleId

\* C30: every optimize finishes: whenever the optimizing flag is set, the
\* handler that set it is still on its way to publishing, and no outcome of
\* a provider ends the handler without publishing.
C30_OptimizeAlwaysFinishes ==
    /\ optimizing => optActive
    /\ ev.op # "optimizeThrow"

\* ------------------------------------------------------- direct mutations
\* The stop with the given id in a collection, as a sequence of at most one.
stopWithId(dests, id) == SelectSeq(dests, LAMBDA d : d.id = id)
hasValidWindow(d) == d.timeWindow # None => d.timeWindow[1].start < d.timeWindow[1].end

\* C31: a time-window edit whose end is not later than its start is refused
\* and leaves the collection as it was before the edit; in every state, every stop that has
\* a time window has start < end.
C31_TimeWindowValidated ==
    /\ \A i \in 1..Len(destinations) : hasValidWindow(destinations[i])
    /\ ev.op = "timeWindowError" => destinations = ev.snap

C31_Witness ==
    /\ ev.op = "timeWindowError"
    /\ \E i \in 1..Len(destinations) :
          /\ destinations[i].id = ev.id
          /\ destinations[i].timeWindow = Some([start |-> 900, end |-> 1800])

\* A receiver name that is empty or blank.
blank(name) == name \in {"", " "}

\* C32: in every state, every Completed stop has a proof-of-delivery with a
\* receiver name and a timestamp, and a mark-complete without a receiver
\* name leaves the stop as it was.
C32_CompletedHasProof ==
    /\ \A i \in 1..Len(destinations) :
          destinations[i].status = COMPLETED =>
              /\ destinations[i].proofOfDelivery # None
              /\ ~blank(destinations[i].proofOfDelivery[1].receiverName)
              /\ destinations[i].proofOfDelivery[1].timestamp # ""
    /\ ev.op = "finishRefused" => destinations = ev.snap

C32_Witness ==
    /\ ev.op = "finishRefused"
    /\ \E i, j \in 1..Len(destinations) :
          /\ destinations[i].id = ev.id
          /\ destinations[i].status = PENDING
          /\ destinations[j].status = COMPLETED

\* The operations that edit one stop, and what each may change of it.
sameBut(op, before, after) ==
    IF op = "notes" THEN after = [before EXCEPT !.notes = after.notes]
    ELSE IF op = "timeWindow" THEN after = [before EXCEPT !.timeWindow = after.timeWindow]
    ELSE IF op = "complete"
    THEN after = [before EXCEPT !.status = COMPLETED,
                                !.proofOfDelivery = after.proofOfDelivery]
    ELSE after = before

\* C33: editing notes, editing the time window and mark-complete change
\* only their own fields of the stop with the given id and leave the other
\* stops and the order as they were; remove deletes the stop with the given
\* id and keeps the others in order; none of them calls a provider, and
\* each leaves the collection as it was when no stop has the id.
C33_DirectMutationFrame ==
    [][/\ ev'.op \in {"notes", "timeWindow", "complete"} =>
             /\ Len(destinations') = Len(destinations)
             /\ \A i \in 1..Len(destinations) :
                   IF destinations[i].id = ev'.id
                   THEN sameBut(ev'.op, destinations[i], destinations'[i])
                   ELSE destinations'[i] = destinations[i]
             /\ ev'.calls = << >>
       /\ ev'.op = "remove" =>
             /\ destinations' = SelectSeq(destinations, LAMBDA d : d.id # ev'.id)
             /\ Len(destinations') = Len(destinations) - occurrences(destinations, ev'.id)
             /\ ev'.calls = << >>]_vars

C33_Witness ==
    /\ ev.op = "notes"
    /\ Len(destinations) >= 2
    /\ \E i, j \in 1..Len(destinations) :
          /\ destinations[i].id = ev.id
          /\ destinations[i].notes = "n"
          /\ destinations[j].id # ev.id
          /\ destinations[j].notes = ""

\* C34: duplicate appends one stop at the end, with an id no stop of the
\* collection has, Pending and without proof-of-delivery, whatever the
\* status of its source; the stops already there are unchanged.
C34_DuplicateAppendsFreshPending ==
    [][ev'.op = "duplicate" =>
          /\ Len(destinations') = Len(destinations) + 1
          /\ SubSeq(destinations', 1, Len(destinations)) = destinations
          /\ destinations'[Len(destinations')].id = ev'.id
          /\ ev'.id \notin IdSet(destinations)
          /\ destinations'[Len(destinations')].status = PENDING
          /\ destinations'[Len(destinations')].proofOfDelivery = None
          /\ ev'.calls = << >>]_vars

C34_Witness ==
    /\ ev.op = "duplicate"
    /\ Len(destinations) >= 2
    /\ destinations[Len(destinations)].id = ev.id
    /\ destinations[Len(destinations)].status = PENDING
    /\ \E j \in 1..(Len(destinations) - 1) :
          /\ destinations[j].status = COMPLETED
          /\ destinations[j].proofOfDelivery # None
          /\ destinations[j].address = destinations[Len(destinations)].address

\* ---------------------------------------------------- reorder by reversal
\* The collection before the reversal just made, and the parts of both.
beforeInvert == ev.snap
bagOf(seq) == [x \in {seq[i] : i \in 1..Len(seq)} |->
                  Cardinality({i \in 1..Len(seq) : seq[i] = x})]

\* C35: reversal keeps the Completed stops in front in their prior order,
\* reverses the order of the other stops, changes, adds and drops no stop,
\* leaves the collection as it was when fewer than two stops are not
\* Completed, and applied twice restores the order of the stops that are
\* not Completed.
C35_ReversalOfPending ==
    /\ [](ev.op = "invert" =>
            /\ bagOf(destinations) = bagOf(beforeInvert)
            /\ Len(destinations) = Len(beforeInvert)
            /\ IF Len(pendingAtStart) < 2
               THEN destinations = beforeInvert
               ELSE /\ SubSeq(destinations, 1, Len(completedAtStart)) = completedAtStart
                    /\ publishedPending = reversed(pendingAtStart)
                    /\ destinations = completedAtStart \o publishedPending)
    /\ [][(ev.op = "invert" /\ ev'.op = "invert") =>
             SelectSeq(destinations', isPending) = pendingAtStart]_vars

C35_Witness ==
    /\ ev.op = "invert"
    /\ Len(pendingAtStart) = 2
    /\ completedAtStart # << >>
    /\ publishedPending = reversed(pendingAtStart)
    /\ publishedPending # pendingAtStart

\* ------------------------------------------------------------ persistence
\* The collection a login of user u would load.
snapshotOf(u) == loadUserData(localStorage, u)

\* C36: while a user is logged in the snapshot stored for that user is the
\* current collection; logout leaves every snapshot as it was, nothing
\* writes the snapshot of a user who is not logged in, and a login with no
\* batch in flight shows the snapshot of that user, so that it restores the
\* collection as it was at logout.
C36_SnapshotRoundTrip ==
    /\ []((user # NoUser /\ isDataLoaded) => snapshotOf(user) = destinations)
    /\ [][ev'.op = "logout" => localStorage' = localStorage]_vars
    /\ [][\A u \in Users :
             (u # user /\ u # user') => localStorage'[u] = localStorage[u]]_vars
    /\ [][(ev'.op = "login" /\ ~batchActive) =>
             destinations' = loadUserData(localStorage, user')]_vars

\* The code the stops of a user's own batches carry.
ownCode(u) == CleanDigits(IF u = "u1" THEN CepA ELSE CepB)

\* C37: the snapshot stored for a user holds no stop made by a batch add or
\* an optimize of another user's session: every stop in it carries the
\* code that user submits.
C37_NoStopFromOtherSession ==
    \A u \in Users :
        \A i \in 1..Len(snapshotOf(u)) :
            codeOf(snapshotOf(u)[i]) = ownCode(u)

\* C38: a leg that was fetched stays in what segments returns whatever the
\* later requests of the call do: when a later request throws, the stops
\* whose requests had got a route before it still carry their new legs.
C38_FetchedLegsSurviveLaterThrow ==
    justRouted =>
        \A i \in 1..Len(segmentsIn) :
            (legRequested(i) /\ legAnswer(i) = "ok") =>
                segmentsOut[i].leg = Some(legRequests[i].code[1])

\* The fields of a stop other than its leg.
withoutLeg(d) == [d EXCEPT !.leg = None]

\* C39: segments returns the stops it was given, in the same order: the
\* same length, the same id at every position, and every field other than
\* the leg as it was, for every combination of answers.
C39_SegmentsKeepsStopsAndOrder ==
    justRouted =>
        /\ Len(segmentsOut) = Len(segmentsIn)
        /\ \A i \in 1..Len(segmentsIn) :
              /\ segmentsOut[i].id = segmentsIn[i].id
              /\ withoutLeg(segmentsOut[i]) = withoutLeg(segmentsIn[i])

C39_Witness ==
    /\ justRouted
    /\ Len(segmentsIn) = MaxIds
    /\ ev.net.overview = "ok"
    /\ legAnswer(1) = "ok"
    /\ legAnswer(2) = "noroute"
    /\ legAnswer(3) = "ok"
    /\ segmentsOut[1].leg # segmentsIn[1].leg
    /\ segmentsOut # segmentsIn

\* C40: every batch add finishes: the loading flag is set exactly while
\* the loop of the batch is on its way through the codes, and no outcome of
\* a provider ends the loop before the last code.
C40_BatchAlwaysFinishes ==
    /\ loading <=> batchActive
    /\ ev.op # "addCepThrow"

====
